---- MODULE Spec2Model ----
(***************************************************************************)
(* Shared expense ledger of apps/web/src/app/expenses/page.tsx: the form   *)
(* validation and split computation, the store round trips of add, edit,   *)
(* settle, batch settle and delete, the refresh of the displayed snapshot, *)
(* and the pure balance computation.                                       *)
(*                                                                         *)
(* Representation.  Text (descriptions, display names, the value of a     *)
(* numeric input) is a sequence of one-character strings.  A JavaScript    *)
(* number is <<>> for NaN and <<m>> for the value m / 1000 (m an integer,  *)
(* "mills"); stored cents are integers.  A calendar date YYYY-MM-DD is the *)
(* integer YYYYMMDD, whose order is the order of the ISO strings.  A       *)
(* timestamp is a reading of the clock.                                    *)
(***************************************************************************)
EXTENDS Integers, Sequences, FiniteSets, TLC

\* ------------------------------------------------------------------ bounds
MaxIds == 2
MaxClock == 2
MaxInFlight == 1
MaxClicks == 2
MaxEntries == 2
MaxTotal == 12
MaxNotices == 3
MaxRows == 2

\* ------------------------------------------------------- program constants
SplitTolerance == 2
Null == 0

NoError == "null"
ErrDescription == "Description is required"
ErrAmount == "Valid amount is required"
ErrPaidBy == "Please select who paid"
ErrCustomNaN == "Invalid custom split amounts"
ErrSplit == "Split amounts should add up to total"
ErrStore == "store error"

\* -------------------------------------------------------------------- text
Whitespace == {" ", "\t", "\n"}
UpperChars == <<"A","B","C","D","E","F","G","H","I","J","K","L","M",
                "N","O","P","Q","R","S","T","U","V","W","X","Y","Z">>
LowerChars == <<"a","b","c","d","e","f","g","h","i","j","k","l","m",
                "n","o","p","q","r","s","t","u","v","w","x","y","z">>
Digits == <<"0","1","2","3","4","5","6","7","8","9">>

SetMin(S) == CHOOSE x \in S : \A y \in S : x <= y
SetMax(S) == CHOOSE x \in S : \A y \in S : x >= y
Abs(n) == IF n < 0 THEN -n ELSE n

\* String.prototype.trim: the text without its leading and trailing whitespace.
trim(s) ==
  LET keep == {i \in 1..Len(s) : s[i] \notin Whitespace}
  IN  IF keep = {} THEN <<>> ELSE SubSeq(s, SetMin(keep), SetMax(keep))

toLowerCaseChar(c) ==
  IF \E i \in 1..26 : UpperChars[i] = c
  THEN LowerChars[CHOOSE i \in 1..26 : UpperChars[i] = c]
  ELSE c

\* String.prototype.toLowerCase.
toLowerCase(s) == [i \in 1..Len(s) |-> toLowerCaseChar(s[i])]

\* String.prototype.includes: sub occurs in s as a contiguous run.
includes(s, sub) ==
  \E i \in 0..(Len(s) - Len(sub)) : \A j \in 1..Len(sub) : s[i + j] = sub[j]

\* ----------------------------------------------------------------- numbers
NaN == <<>>
isNaN(x) == x = NaN

IsDigit(c) == \E i \in 1..10 : Digits[i] = c
DigitValue(c) == (CHOOSE i \in 1..10 : Digits[i] = c) - 1

\* The length of the longest prefix of s made of digits.
RECURSIVE DigitRun(_)
DigitRun(s) ==
  IF s = <<>> \/ ~IsDigit(Head(s)) THEN 0 ELSE 1 + DigitRun(Tail(s))

\* The value of a run of digits.
RECURSIVE DigitsValue(_)
DigitsValue(s) ==
  IF s = <<>> THEN 0 ELSE DigitsValue(SubSeq(s, 1, Len(s) - 1)) * 10 + DigitValue(s[Len(s)])

\* The first three fractional digits as thousandths (further digits are below
\* the precision of the model and are not entered by the modelled inputs).
FractionMills(s) ==
  LET d == [i \in 1..3 |-> IF i <= Len(s) THEN DigitValue(s[i]) ELSE 0]
  IN  d[1] * 100 + d[2] * 10 + d[3]

\* parseFloat: optional sign, digits, optional fraction; the longest numeric
\* prefix is read and NaN is returned when there is none.
parseFloat(text) ==
  LET s     == trim(text)
      neg   == s # <<>> /\ Head(s) = "-"
      body  == IF s # <<>> /\ Head(s) \in {"-", "+"} THEN Tail(s) ELSE s
      n     == DigitRun(body)
      rest  == SubSeq(body, n + 1, Len(body))
      frac  == IF rest # <<>> /\ Head(rest) = "." THEN Tail(rest) ELSE <<>>
      f     == DigitRun(frac)
      mills == DigitsValue(SubSeq(body, 1, n)) * 1000 + FractionMills(SubSeq(frac, 1, f))
  IN  IF n = 0 /\ f = 0 THEN NaN
      ELSE <<IF neg THEN -mills ELSE mills>>

\* Math.round(x * 100): the cents nearest to x, a tie going up.  The double
\* nearest to a decimal that lies exactly between two cents (1.005) may fall
\* on either side of the tie, so both cents are possible results.
RoundCents(x) ==
  IF isNaN(x) THEN {NaN}
  ELSE IF x[1] % 10 = 5 THEN {<<x[1] \div 10>>, <<x[1] \div 10 + 1>>}
  ELSE {<<(x[1] + 5) \div 10>>}

\* Math.round(n / 2) of an integer n: n / 2 is exact, a tie goes up.
RoundHalf(n) == (n + 1) \div 2

\* The decimal numeral of a natural number.
RECURSIVE NatText(_)
NatText(n) ==
  IF n < 10 THEN <<Digits[n + 1]>> ELSE NatText(n \div 10) \o <<Digits[(n % 10) + 1]>>

\* (cents / 100).toString(): the shortest decimal numeral of cents / 100.
CentsText(cents) ==
  LET a    == Abs(cents)
      sign == IF cents < 0 THEN <<"-">> ELSE <<>>
      whole == NatText(a \div 100)
      c    == a % 100
      frac == IF c = 0 THEN <<>>
              ELSE IF c % 10 = 0 THEN <<".", Digits[(c \div 10) + 1]>>
              ELSE <<".", Digits[(c \div 10) + 1], Digits[(c % 10) + 1]>>
  IN  sign \o whole \o frac


\* ------------------------------------------------------------------- data
Today == 20260215
Yesterday == Today - 1

Steph == <<"s","t","e","p","h">>

\* The rows of the profiles table, as the auth effect maps them to User.
Profiles ==
  << [id |-> "u1", email |-> "steph@953.test", displayName |-> <<"S","t","e","p","h">>],
     [id |-> "u2", email |-> "sam@953.test",   displayName |-> <<"S","a","m">>] >>

Categories == {"Food", "Gas & Electric", "WiFi", "Household", "Fun", "Misc"}
SplitTypes == {"50/50", "custom"}

Rent == <<"r","e","n","t">>
Wifi == <<"w","i","f","i">>
Blank == <<" "," ">>

\* The form as useState creates it and as a successful submit leaves it.
EmptyForm ==
  [description |-> <<>>, amount |-> <<>>, category |-> "Misc", date |-> Today,
   paidBy |-> "", splitType |-> "50/50", stephOwes |-> <<>>, samOwes |-> <<>>]

NoValues == [none |-> TRUE]
NoTarget == {}

VARIABLES
  store,               \* the expenses table: id -> row
  nextId,              \* the next id the store assigns
  clock,               \* the next reading of the browser's clock
  users,               \* useState: the profiles loaded by the auth effect
  expenses,            \* useState: the displayed snapshot
  loading,             \* useState
  error,               \* useState
  submitting,          \* useState
  editingExpenseId,    \* useState: Null or the id under edit
  form,                \* useState: the eight form fields
  selectedExpenseIds,  \* useState: the batch selection
  tasks,               \* the store calls in flight, one per awaiting handler
  mounted,             \* whether the auth effect has run
  balance,             \* the last result of calculateBalance
  view,                \* useState: the search, filter, date range and sort controls
  rendered,            \* the last filtered and sorted list and the chart data
  peerError            \* the error state of a second session of the page

vars == <<store, nextId, clock, users, expenses, loading, error, submitting,
          editingExpenseId, form, selectedExpenseIds, tasks, mounted, balance,
          view, rendered, peerError>>

\* The controls and outputs of the query section, and the second session.
query == <<view, rendered, peerError>>

client == <<users, expenses, loading, error, submitting, editingExpenseId, form,
            selectedExpenseIds, mounted>>

NoBalance == [person |-> "", owes |-> "", amount |-> -1]

\* The controls as useState creates them (lines 53-61).  An empty date input
\* and the null of getDateRange are both Null: the filter only tests them for
\* being falsy.  eastOfUtc is not a control but the browser's time zone, which
\* getDateRange reads through the Date constructor.
DefaultView ==
  [searchQuery |-> <<>>, filterCategory |-> "all", filterReimbursed |-> "all",
   dateRangePreset |-> "all", customStartDate |-> Null, customEndDate |-> Null,
   sortOption |-> "date-desc", eastOfUtc |-> FALSE]

\* Nothing rendered yet.
NoRendered ==
  [listed |-> FALSE, filtered |-> <<>>, sorted |-> <<>>,
   charted |-> FALSE, categoryData |-> <<>>, monthlyData |-> <<>>]

QueryUntouched ==
  /\ view = DefaultView
  /\ rendered = NoRendered
  /\ peerError = NoError

\* ------------------------------------------------------------------ store
Rows(st) == {st[i] : i \in DOMAIN st}

\* Whether row a comes before row b under
\* .order("expense_date", desc).order("created_at", desc).
Before(a, b) ==
  \/ a.expense_date > b.expense_date
  \/ a.expense_date = b.expense_date /\ a.created_at > b.created_at

\* The rows of a select, in the order the query asks for.
RECURSIVE Ordered(_)
Ordered(rows) ==
  IF rows = {} THEN <<>>
  ELSE LET first == CHOOSE r \in rows : \A q \in rows \ {r} : Before(r, q)
       IN  <<first>> \o Ordered(rows \ {first})

SelectAll(st) == Ordered(Rows(st))

\* insert(values): the store assigns id and created_at.
InsertRow(st, id, now, values) ==
  [i \in DOMAIN st \cup {id} |->
     IF i = id
     THEN [id |-> id, created_by |-> values.created_by, paid_by |-> values.paid_by,
           description |-> values.description, amount_cents |-> values.amount_cents,
           expense_date |-> values.expense_date, created_at |-> now,
           category |-> values.category, split_type |-> values.split_type,
           steph_owes_cents |-> values.steph_owes_cents,
           sam_owes_cents |-> values.sam_owes_cents,
           reimbursed |-> values.reimbursed, reimbursed_date |-> values.reimbursed_date]
     ELSE st[i]]

\* Patched with created_at written again by every update.
PatchedRestamped(row, patch) ==
  [c \in DOMAIN row |-> IF c \in DOMAIN patch THEN patch[c]
                        ELSE IF c = "created_at" THEN Null ELSE row[c]]

\* Patched with the columns that an edit does not send put back to their
\* defaults.
PatchedResetsSettled(row, patch) ==
  [c \in DOMAIN row |->
     IF c \in DOMAIN patch THEN patch[c]
     ELSE IF c = "reimbursed" /\ "description" \in DOMAIN patch THEN FALSE
     ELSE IF c = "reimbursed_date" /\ "description" \in DOMAIN patch THEN Null
     ELSE row[c]]

\* One row with the columns of a patch overwritten.
Patched(row, patch) ==
  [c \in DOMAIN row |-> IF c \in DOMAIN patch THEN patch[c] ELSE row[c]]

\* UpdateRows without the filter on the id: every row takes the patch.
UpdateRowsUnfiltered(st, ids, patch) ==
  [i \in DOMAIN st |-> Patched(st[i], patch)]

\* UpdateRows that changes nothing when one of the ids has no row.
UpdateRowsAllOrNothing(st, ids, patch) ==
  IF ids \subseteq DOMAIN st
  THEN [i \in DOMAIN st |-> IF i \in ids THEN Patched(st[i], patch) ELSE st[i]]
  ELSE st

\* update(patch).eq("id", ...) / .in("id", ...): the rows whose id is among ids
\* take the patch; an id with no row matches nothing and is no error.
UpdateRows(st, ids, patch) ==
  [i \in DOMAIN st |-> IF i \in ids THEN Patched(st[i], patch) ELSE st[i]]

\* delete().eq("id", id).
DeleteRows(st, ids) == [i \in DOMAIN st \ ids |-> st[i]]


\* ------------------------------------------------- validation and the split
\* EvenSplit with the rounded half given to both parties.
EvenSplitBothHalves(amountCents) ==
  [steph |-> RoundHalf(amountCents), sam |-> RoundHalf(amountCents)]

\* EvenSplit with the half rounded down, the odd cent going to Sam.
EvenSplitFloor(amountCents) ==
  [steph |-> amountCents \div 2, sam |-> amountCents - (amountCents \div 2)]

\* Lines 178-181: half = Math.round(amountCents / 2) goes to Steph, the rest to Sam.
EvenSplit(amountCents) ==
  [steph |-> RoundHalf(amountCents), sam |-> amountCents - RoundHalf(amountCents)]

\* SplitReconciles with the tolerance itself rejected.
SplitReconcilesStrict(stephOwesCents, samOwesCents, amountCents) ==
  ~(Abs((stephOwesCents + samOwesCents) - amountCents) >= SplitTolerance)

\* SplitReconciles with no check at all.
SplitReconcilesAlways(stephOwesCents, samOwesCents, amountCents) == TRUE

\* Line 193: the custom shares add up to the total within the tolerance.
SplitReconciles(stephOwesCents, samOwesCents, amountCents) ==
  ~(Abs((stephOwesCents + samOwesCents) - amountCents) > SplitTolerance)

\* Lines 186-197: the custom branch, given the three rounded numbers.
CustomOutcome(f, amt, st, sm) ==
  IF isNaN(st) \/ isNaN(sm) THEN [error |-> ErrCustomNaN, values |-> NoValues]
  ELSE IF ~SplitReconciles(st[1], sm[1], amt[1])
  THEN [error |-> ErrSplit, values |-> NoValues]
  ELSE [error |-> NoError,
        values |-> [paid_by |-> f.paidBy, description |-> f.description,
                    amount_cents |-> amt[1], expense_date |-> f.date,
                    category |-> f.category, split_type |-> f.splitType,
                    steph_owes_cents |-> st[1], sam_owes_cents |-> sm[1]]]

\* Lines 178-181: the 50/50 branch.
EvenOutcome(f, amt) ==
  [error |-> NoError,
   values |-> [paid_by |-> f.paidBy, description |-> f.description,
               amount_cents |-> amt[1], expense_date |-> f.date,
               category |-> f.category, split_type |-> f.splitType,
               steph_owes_cents |-> EvenSplit(amt[1]).steph,
               sam_owes_cents |-> EvenSplit(amt[1]).sam]]

\* Lines 161-172: the amount is a positive number of cents and a payer is chosen.
AmountOutcomes(f, amt) ==
  IF isNaN(amt) \/ amt[1] <= 0 THEN {[error |-> ErrAmount, values |-> NoValues]}
  ELSE IF f.paidBy = "" THEN {[error |-> ErrPaidBy, values |-> NoValues]}
  ELSE IF f.splitType = "50/50" THEN {EvenOutcome(f, amt)}
  ELSE {CustomOutcome(f, amt, st, sm) :
          st \in RoundCents(parseFloat(f.stephOwes)),
          sm \in RoundCents(parseFloat(f.samOwes))}

\* Validate with the description tested without trim.
ValidateNoTrim(f) ==
  IF f.description = <<>> THEN {[error |-> ErrDescription, values |-> NoValues]}
  ELSE UNION {AmountOutcomes(f, amt) : amt \in RoundCents(parseFloat(f.amount))}

\* Lines 154-198 of handleAddOrUpdateExpense: every outcome the validation of
\* form f can have, an error message or the column values to write.
Validate(f) ==
  IF trim(f.description) = <<>> THEN {[error |-> ErrDescription, values |-> NoValues]}
  ELSE UNION {AmountOutcomes(f, amt) : amt \in RoundCents(parseFloat(f.amount))}

\* --------------------------------------------------------------- the tasks
\* A store call in flight: "sent" until the store has handled it, "replied"
\* until the awaiting handler resumes.  origin is the handler that awaits it.
Task(kind, origin, target, values) ==
  [kind |-> kind, origin |-> origin, stage |-> "sent", target |-> target,
   values |-> values, failed |-> FALSE, data |-> <<>>]

Without(seq, i) == SubSeq(seq, 1, i - 1) \o SubSeq(seq, i + 1, Len(seq))

Replace(seq, i, x) == [seq EXCEPT ![i] = x]

\* ------------------------------------------------------------ Init and mount
Init ==
  /\ store = <<>>
  /\ nextId = 1
  /\ clock = 1
  /\ users = <<>>
  /\ expenses = <<>>
  /\ loading = TRUE
  /\ error = NoError
  /\ submitting = FALSE
  /\ editingExpenseId = Null
  /\ form = EmptyForm
  /\ selectedExpenseIds = {}
  /\ tasks = <<>>
  /\ mounted = FALSE
  /\ balance = NoBalance
  /\ QueryUntouched

\* loadExpenses up to its await (lines 126-133), called by handler origin.
StartLoad(origin, rest) ==
  /\ loading' = TRUE
  /\ error' = NoError
  /\ tasks' = Append(rest, Task("select", origin, NoTarget, NoValues))

\* Lines 76-103: the auth effect loads the profiles (or fails to) and calls
\* loadExpenses.
AuthGate ==
  /\ ~mounted
  /\ mounted' = TRUE
  /\ \E ok \in BOOLEAN : users' = IF ok THEN Profiles ELSE users
  /\ StartLoad("mount", tasks)
  /\ UNCHANGED <<store, nextId, clock, expenses, submitting, editingExpenseId, form,
                 selectedExpenseIds, balance, query>>


\* The user the auth effect found signed in (line 84).
CurrentUserId == "u1"

\* ----------------------------------------------------------- the form
\* The options of the "Who paid?" select (lines 776-781).
PaidByOptions == {""} \cup {users[i].id : i \in 1..Len(users)}

\* The user fills the form in: the setters of lines 41-48, with a draft of D.
TypeForm(D) ==
  /\ \E d \in D :
       /\ d.paidBy \in PaidByOptions
       /\ d # form
       /\ form' = d
  /\ UNCHANGED <<store, nextId, clock, users, expenses, loading, error, submitting,
                 editingExpenseId, selectedExpenseIds, tasks, mounted, balance, query>>

\* Whose debt the list shows for a row (lines 1220-1240): the payer's display
\* name decides; a payer without a profile is shown by id and is not Steph.
PaidByStephInList(e) ==
  \E i \in 1..Len(users) :
    /\ users[i].id = e.paid_by
    /\ \A j \in 1..(i - 1) : users[j].id # e.paid_by
    /\ includes(toLowerCase(users[i].displayName), Steph)

DebtAmount(e) ==
  IF PaidByStephInList(e) /\ e.sam_owes_cents > 0 THEN e.sam_owes_cents
  ELSE IF ~PaidByStephInList(e) /\ e.steph_owes_cents > 0 THEN e.steph_owes_cents
  ELSE 0

\* The rows on screen: none while loading (line 1191), else the snapshot.
Shown == IF loading THEN {} ELSE {expenses[i] : i \in 1..Len(expenses)}

\* Lines 237-249: the columns of an insert.
InsertValues(values) ==
  [created_by |-> CurrentUserId, paid_by |-> values.paid_by,
   description |-> values.description, amount_cents |-> values.amount_cents,
   expense_date |-> values.expense_date, category |-> values.category,
   split_type |-> values.split_type, steph_owes_cents |-> values.steph_owes_cents,
   sam_owes_cents |-> values.sam_owes_cents,
   reimbursed |-> FALSE, reimbursed_date |-> Null]

\* UpdateValues with the columns of an insert: the row is written as a whole.
UpdateValuesWholeRow(values) == InsertValues(values)

\* Lines 204-213: the columns of an update.
UpdateValues(values) ==
  [paid_by |-> values.paid_by, description |-> values.description,
   amount_cents |-> values.amount_cents, expense_date |-> values.expense_date,
   category |-> values.category, split_type |-> values.split_type,
   steph_owes_cents |-> values.steph_owes_cents,
   sam_owes_cents |-> values.sam_owes_cents]

\* SettleValues without the date.
SettleValuesNoDate(now) == [reimbursed |-> TRUE]

\* Lines 275-278 and 358-361: the columns a settle writes, now = new Date().
SettleValues(now) == [reimbursed |-> TRUE, reimbursed_date |-> now]

\* Lines 150-270 up to the await: validate the form, compute the split, and send
\* the update (an edit is open) or the insert.
handleAddOrUpdateExpense ==
  /\ ~submitting
  /\ \E o \in Validate(form) :
       IF o.error # NoError
       THEN /\ error' = o.error
            /\ submitting' = FALSE
            /\ tasks' = tasks
       ELSE /\ error' = NoError
            /\ submitting' = TRUE
            /\ tasks' = Append(tasks,
                 IF editingExpenseId # Null
                 THEN Task("update", "form", {editingExpenseId}, UpdateValues(o.values))
                 ELSE Task("insert", "form", NoTarget, InsertValues(o.values)))
  /\ UNCHANGED <<store, nextId, clock, users, expenses, loading, editingExpenseId, form,
                 selectedExpenseIds, mounted, balance, query>>

\* Lines 288-301: load a shown row into the form.
handleEditExpense ==
  /\ \E e \in Shown :
       /\ editingExpenseId' = e.id
       /\ form' = [description |-> e.description, amount |-> CentsText(e.amount_cents),
                   category |-> e.category, date |-> e.expense_date,
                   paidBy |-> e.paid_by, splitType |-> e.split_type,
                   stephOwes |-> CentsText(e.steph_owes_cents),
                   samOwes |-> CentsText(e.sam_owes_cents)]
       /\ <<editingExpenseId', form'>> # <<editingExpenseId, form>>
  /\ UNCHANGED <<store, nextId, clock, users, expenses, loading, error, submitting,
                 selectedExpenseIds, tasks, mounted, balance, query>>

\* Lines 303-314.
handleCancelEdit ==
  /\ editingExpenseId # Null
  /\ editingExpenseId' = Null
  /\ form' = EmptyForm
  /\ UNCHANGED <<store, nextId, clock, users, expenses, loading, error, submitting,
                 selectedExpenseIds, tasks, mounted, balance, query>>

\* Lines 272-279 up to the await: "Mark paid" on a shown, unpaid row with a debt
\* (line 1334) sends reimbursed = true and the time of the click.
handleMarkReimbursed ==
  /\ clock <= MaxClock
  /\ \E e \in Shown :
       /\ ~e.reimbursed
       /\ DebtAmount(e) > 0
       /\ tasks' = Append(tasks, Task("settle", "row", {e.id},
                                     SettleValues(clock)))
  /\ clock' = clock + 1
  /\ UNCHANGED <<store, nextId, client, balance, query>>

\* Lines 316-324 up to the await, the confirm dialog accepted.
handleDeleteExpense ==
  /\ \E e \in Shown : tasks' = Append(tasks, Task("delete", "row", {e.id}, NoValues))
  /\ UNCHANGED <<store, nextId, clock, client, balance, query>>

\* Lines 333-341: the checkbox of a shown, unpaid row (line 1252).
toggleExpenseSelection ==
  /\ \E e \in Shown :
       /\ ~e.reimbursed
       /\ selectedExpenseIds' =
            IF e.id \in selectedExpenseIds THEN selectedExpenseIds \ {e.id}
            ELSE selectedExpenseIds \cup {e.id}
  /\ UNCHANGED <<store, nextId, clock, users, expenses, loading, error, submitting,
                 editingExpenseId, form, tasks, mounted, balance, query>>

\* Lines 343-346: every unpaid row of the snapshot is selected.  The page has
\* no control that calls the function; the selections it makes are the ones
\* ticking every unpaid row makes.
selectAllUnpaid ==
  /\ selectedExpenseIds' = {expenses[k].id : k \in {j \in 1..Len(expenses) : ~expenses[j].reimbursed}}
  /\ selectedExpenseIds' # selectedExpenseIds
  /\ UNCHANGED <<store, nextId, clock, users, expenses, loading, error, submitting,
                 editingExpenseId, form, tasks, mounted, balance, query>>

\* Lines 348-350, the button of the batch bar (line 1140).
clearSelection ==
  /\ selectedExpenseIds # {}
  /\ selectedExpenseIds' = {}
  /\ UNCHANGED <<store, nextId, clock, users, expenses, loading, error, submitting,
                 editingExpenseId, form, tasks, mounted, balance, query>>

\* Lines 352-362 up to the await: one update for all selected ids.
handleBatchMarkPaid ==
  /\ selectedExpenseIds # {}
  /\ clock <= MaxClock
  /\ tasks' = Append(tasks, Task("batch", "row", selectedExpenseIds,
                                 SettleValues(clock)))
  /\ clock' = clock + 1
  /\ UNCHANGED <<store, nextId, client, balance, query>>

\* The Refresh button (line 869) calls loadExpenses.
Refresh ==
  /\ mounted
  /\ StartLoad("row", tasks)
  /\ UNCHANGED <<store, nextId, clock, users, expenses, submitting, editingExpenseId,
                 form, selectedExpenseIds, mounted, balance, query>>

\* ----------------------------------------------------- the store's side
\* The store runs the insert of task i.  The store assigns the id and, from
\* its own clock, created_at: one reading per insert, which the sequence of
\* the ids stands for.
StoreInsert(i) ==
  /\ tasks[i].stage = "sent" /\ tasks[i].kind = "insert"
  /\ nextId <= MaxIds
  /\ store' = InsertRow(store, nextId, nextId, tasks[i].values)
  /\ nextId' = nextId + 1
  /\ tasks' = Replace(tasks, i, [tasks[i] EXCEPT !.stage = "replied"])
  /\ UNCHANGED <<clock, client, balance, query>>

\* StoreUpdate with a settle of an already settled row answered by an error.
StoreUpdateRejectsSettled(i) ==
  /\ tasks[i].stage = "sent" /\ tasks[i].kind \in {"update", "settle", "batch"}
  /\ LET again == /\ tasks[i].kind = "settle"
                   /\ \E id \in tasks[i].target \cap DOMAIN store : store[id].reimbursed
     IN  /\ store' = IF again THEN store
                      ELSE UpdateRows(store, tasks[i].target, tasks[i].values)
         /\ tasks' = Replace(tasks, i, [tasks[i] EXCEPT !.stage = "replied",
                                                         !.failed = again])
  /\ UNCHANGED <<nextId, clock, client, balance, query>>

\* The store runs the update of task i (an edit, a settle or a batch settle).
StoreUpdate(i) ==
  /\ tasks[i].stage = "sent" /\ tasks[i].kind \in {"update", "settle", "batch"}
  /\ store' = UpdateRows(store, tasks[i].target, tasks[i].values)
  /\ tasks' = Replace(tasks, i, [tasks[i] EXCEPT !.stage = "replied"])
  /\ UNCHANGED <<nextId, clock, client, balance, query>>

\* The store runs the delete of task i.
StoreDelete(i) ==
  /\ tasks[i].stage = "sent" /\ tasks[i].kind = "delete"
  /\ store' = DeleteRows(store, tasks[i].target)
  /\ tasks' = Replace(tasks, i, [tasks[i] EXCEPT !.stage = "replied"])
  /\ UNCHANGED <<nextId, clock, client, balance, query>>

\* The store runs the select of task i.
StoreSelect(i) ==
  /\ tasks[i].stage = "sent" /\ tasks[i].kind = "select"
  /\ tasks' = Replace(tasks, i, [tasks[i] EXCEPT !.stage = "replied",
                                                !.data = SelectAll(store)])
  /\ UNCHANGED <<store, nextId, clock, client, balance, query>>

\* The call of task i fails (network, permission): the store is not changed.
StoreFail(i) ==
  /\ tasks[i].stage = "sent"
  /\ tasks' = Replace(tasks, i, [tasks[i] EXCEPT !.stage = "replied", !.failed = TRUE])
  /\ UNCHANGED <<store, nextId, clock, client, balance, query>>

\* ------------------------------------------------- the handlers resume
\* MutationFailed with the failed call sent to the store again.
MutationFailedRetries(i) ==
  /\ tasks[i].stage = "replied" /\ tasks[i].kind # "select" /\ tasks[i].failed
  /\ tasks[i].origin # "peer"
  /\ error' = ErrStore
  /\ tasks' = Replace(tasks, i, [tasks[i] EXCEPT !.stage = "sent", !.failed = FALSE])
  /\ UNCHANGED <<store, nextId, clock, users, expenses, loading, submitting,
                 editingExpenseId, form, selectedExpenseIds, mounted, balance, query>>

\* A mutation's await returns with an error: setError, and for the form's
\* handler setSubmitting(false) (lines 216, 251, 269, 281, 326, 364).
MutationFailed(i) ==
  /\ tasks[i].stage = "replied" /\ tasks[i].kind # "select" /\ tasks[i].failed
  /\ tasks[i].origin # "peer"
  /\ error' = ErrStore
  /\ submitting' = IF tasks[i].origin = "form" THEN FALSE ELSE submitting
  /\ tasks' = Without(tasks, i)
  /\ UNCHANGED <<store, nextId, clock, users, expenses, loading, editingExpenseId, form,
                 selectedExpenseIds, mounted, balance, query>>

\* MutationDone without the call of loadExpenses.
MutationDoneNoFetch(i) ==
  /\ tasks[i].stage = "replied" /\ tasks[i].kind # "select" /\ ~tasks[i].failed
  /\ tasks[i].origin # "peer"
  /\ form' = IF tasks[i].origin = "form" THEN EmptyForm ELSE form
  /\ editingExpenseId' = IF tasks[i].kind = "update" THEN Null ELSE editingExpenseId
  /\ selectedExpenseIds' = IF tasks[i].kind = "batch" THEN {} ELSE selectedExpenseIds
  /\ submitting' = IF tasks[i].origin = "form" THEN FALSE ELSE submitting
  /\ tasks' = Without(tasks, i)
  /\ UNCHANGED <<store, nextId, clock, users, expenses, loading, error, mounted,
                 balance, query>>

\* A mutation's await returns without error: the form's handler clears the
\* form (and closes the edit), the batch clears the selection, and each calls
\* loadExpenses (lines 218-231, 253-265, 284, 329, 367-368).
MutationDone(i) ==
  /\ tasks[i].stage = "replied" /\ tasks[i].kind # "select" /\ ~tasks[i].failed
  /\ tasks[i].origin # "peer"
  /\ form' = IF tasks[i].origin = "form" THEN EmptyForm ELSE form
  /\ editingExpenseId' = IF tasks[i].kind = "update" THEN Null ELSE editingExpenseId
  /\ selectedExpenseIds' = IF tasks[i].kind = "batch" THEN {} ELSE selectedExpenseIds
  /\ loading' = TRUE
  /\ error' = NoError
  /\ tasks' = Replace(tasks, i, Task("select", tasks[i].origin, NoTarget, NoValues))
  /\ UNCHANGED <<store, nextId, clock, users, expenses, submitting, mounted, balance, query>>

\* LoadDone with the fetched rows added to the snapshot instead of replacing it.
LoadDoneAppends(i) ==
  /\ tasks[i].stage = "replied" /\ tasks[i].kind = "select"
  /\ IF tasks[i].failed
     THEN error' = ErrStore /\ expenses' = <<>>
     ELSE error' = error /\ expenses' = expenses \o tasks[i].data
  /\ loading' = FALSE
  /\ submitting' = IF tasks[i].origin = "form" THEN FALSE ELSE submitting
  /\ tasks' = Without(tasks, i)
  /\ UNCHANGED <<store, nextId, clock, users, editingExpenseId, form, selectedExpenseIds,
                 mounted, balance, query>>

\* loadExpenses resumes (lines 135-142), and the form's handler after it
\* (line 269).
LoadDone(i) ==
  /\ tasks[i].stage = "replied" /\ tasks[i].kind = "select"
  /\ IF tasks[i].failed
     THEN error' = ErrStore /\ expenses' = <<>>
     ELSE error' = error /\ expenses' = tasks[i].data
  /\ loading' = FALSE
  /\ submitting' = IF tasks[i].origin = "form" THEN FALSE ELSE submitting
  /\ tasks' = Without(tasks, i)
  /\ UNCHANGED <<store, nextId, clock, users, editingExpenseId, form, selectedExpenseIds,
                 mounted, balance, query>>


\* A realtime change event (lines 106-116) calls loadExpenses; events come at
\* least once and may be repeated.
RealtimeChange ==
  /\ mounted
  /\ StartLoad("row", tasks)
  /\ UNCHANGED <<store, nextId, clock, users, expenses, submitting, editingExpenseId,
                 form, selectedExpenseIds, mounted, balance, query>>

\* --------------------------------------------------- a second session
\* Another session of the page clicks "Mark paid" (lines 272-279) on a row of
\* its own snapshot.  That snapshot was fetched at some earlier time and every
\* row is inserted unsettled (line 247), so a row of the store with a share to
\* pay may still be shown there with the button, whatever its state now.
PeerMarkReimbursed ==
  /\ clock <= MaxClock
  /\ \E id \in DOMAIN store :
       /\ store[id].steph_owes_cents > 0 \/ store[id].sam_owes_cents > 0
       /\ tasks' = Append(tasks, Task("settle", "peer", {id}, SettleValues(clock)))
  /\ clock' = clock + 1
  /\ UNCHANGED <<store, nextId, client, balance, query>>

\* Another session deletes a row of its own snapshot (lines 316-324).
PeerDeleteExpense ==
  /\ \E id \in DOMAIN store :
       tasks' = Append(tasks, Task("delete", "peer", {id}, NoValues))
  /\ UNCHANGED <<store, nextId, clock, client, balance, query>>

\* The second session's await returns with an error: its setError (line 282).
PeerFailed(i) ==
  /\ tasks[i].stage = "replied" /\ tasks[i].origin = "peer" /\ tasks[i].failed
  /\ peerError' = ErrStore
  /\ tasks' = Without(tasks, i)
  /\ UNCHANGED <<store, nextId, clock, client, balance, view, rendered>>

\* The second session's await returns without error: it calls its own
\* loadExpenses (line 284), whose setError(null) is all this session can tell.
PeerDone(i) ==
  /\ tasks[i].stage = "replied" /\ tasks[i].origin = "peer" /\ ~tasks[i].failed
  /\ peerError' = NoError
  /\ tasks' = Without(tasks, i)
  /\ UNCHANGED <<store, nextId, clock, client, balance, view, rendered>>

\* ------------------------------------------------------------- the balance
\* PaidBySteph with the name compared as it is written.
PaidByStephCaseSensitive(us, expense) ==
  \E i \in 1..Len(us) :
    /\ us[i].id = expense.paid_by
    /\ \A j \in 1..(i - 1) : us[j].id # expense.paid_by
    /\ includes(us[i].displayName, Steph)

\* Lines 482-483: the payer's profile is found and its name contains "steph".
PaidBySteph(us, expense) ==
  \E i \in 1..Len(us) :
    /\ us[i].id = expense.paid_by
    /\ \A j \in 1..(i - 1) : us[j].id # expense.paid_by
    /\ includes(toLowerCase(us[i].displayName), Steph)

\* OwesFold with each sum assigned instead of accumulated.
RECURSIVE OwesFoldAssign(_, _, _)
OwesFoldAssign(es, us, acc) ==
  IF es = <<>> THEN acc
  ELSE LET expense == Head(es)
       IN  OwesFoldAssign(Tail(es), us,
             IF expense.reimbursed THEN acc
             ELSE IF PaidBySteph(us, expense)
             THEN [acc EXCEPT !.samOwes = expense.sam_owes_cents]
             ELSE [acc EXCEPT !.stephOwes = expense.steph_owes_cents])

\* Lines 481-490: the forEach over the unreimbursed rows, acc = the two sums.
RECURSIVE OwesFold(_, _, _)
OwesFold(es, us, acc) ==
  IF es = <<>> THEN acc
  ELSE LET expense == Head(es)
       IN  OwesFold(Tail(es), us,
             IF expense.reimbursed THEN acc
             ELSE IF PaidBySteph(us, expense)
             THEN [acc EXCEPT !.samOwes = @ + expense.sam_owes_cents]
             ELSE [acc EXCEPT !.stephOwes = @ + expense.steph_owes_cents])

\* calculateBalance with the net taken the other way round.
calculateBalanceSwapped(es, us) ==
  LET sums == OwesFold(es, us, [stephOwes |-> 0, samOwes |-> 0])
      netBalance == sums.samOwes - sums.stephOwes
  IN  IF Abs(netBalance) < 1
      THEN [person |-> "All settled up!", owes |-> "", amount |-> 0]
      ELSE IF netBalance > 0
      THEN [person |-> "Steph", owes |-> "Sam", amount |-> netBalance]
      ELSE [person |-> "Sam", owes |-> "Steph", amount |-> Abs(netBalance)]

\* Lines 477-500.
calculateBalance(es, us) ==
  LET sums == OwesFold(es, us, [stephOwes |-> 0, samOwes |-> 0])
      netBalance == sums.stephOwes - sums.samOwes
  IN  IF Abs(netBalance) < 1
      THEN [person |-> "All settled up!", owes |-> "", amount |-> 0]
      ELSE IF netBalance > 0
      THEN [person |-> "Steph", owes |-> "Sam", amount |-> netBalance]
      ELSE [person |-> "Sam", owes |-> "Steph", amount |-> Abs(netBalance)]

\* Line 612: the page renders the balance of the displayed snapshot.
RenderBalance ==
  /\ balance' = calculateBalance(expenses, users)
  /\ balance' # balance
  /\ UNCHANGED <<store, nextId, clock, client, tasks, query>>

\* ------------------------------------------------------------ calendar dates
\* The Date arithmetic of getDateRange on dates YYYYMMDD.
MakeDate(y, m, d) == y * 10000 + m * 100 + d

IsLeapYear(y) == (y % 4 = 0 /\ y % 100 # 0) \/ y % 400 = 0

DaysInMonth(y, m) ==
  IF m = 2 THEN (IF IsLeapYear(y) THEN 28 + 1 ELSE 28)
  ELSE IF m \in {4, 6, 9, 11} THEN 30
  ELSE 31

\* The day before date.
PrevDay(date) ==
  LET y == date \div 10000
      m == (date \div 100) % 100
      d == date % 100
  IN  IF d > 1 THEN MakeDate(y, m, d - 1)
      ELSE IF m > 1 THEN MakeDate(y, m - 1, DaysInMonth(y, m - 1))
      ELSE MakeDate(y - 1, 12, 31)

\* start.setDate(start.getDate() - n): the date n days before date.
RECURSIVE DaysBefore(_, _)
DaysBefore(date, n) == IF n = 0 THEN date ELSE DaysBefore(PrevDay(date), n - 1)

\* new Date(year, month, 1) and new Date(year, month + 1, 0) of date's month.
MonthStart(date) == MakeDate(date \div 10000, (date \div 100) % 100, 1)
MonthEnd(date) ==
  MakeDate(date \div 10000, (date \div 100) % 100,
           DaysInMonth(date \div 10000, (date \div 100) % 100))

\* toISOString().split('T')[0] of the local midnight of date: the date in UTC,
\* which is the day before in a time zone east of UTC.
UtcDateOfLocalMidnight(date, eastOfUtc) == IF eastOfUtc THEN PrevDay(date) ELSE date

\* ------------------------------------------------------ filter, sort, charts
\* Lines 447-474.  Today is the UTC date of now, as in the form's default date;
\* its month is also the local month (Today is not next to a month's end), and
\* no clock change falls into the last 30 days.
getDateRange(v) ==
  CASE v.dateRangePreset = "this-month" ->
         [start |-> UtcDateOfLocalMidnight(MonthStart(Today), v.eastOfUtc),
          end   |-> UtcDateOfLocalMidnight(MonthEnd(Today), v.eastOfUtc)]
    [] v.dateRangePreset = "last-30" ->
         [start |-> DaysBefore(Today, 30), end |-> Today]
    [] v.dateRangePreset = "custom" ->
         [start |-> v.customStartDate, end |-> v.customEndDate]
    [] OTHER -> [start |-> Null, end |-> Null]

\* Lines 1195-1196.
matchesSearch(expense, v) ==
  \/ trim(v.searchQuery) = <<>>
  \/ includes(toLowerCase(expense.description), toLowerCase(v.searchQuery))

\* matchesCategory with every category let through.
matchesCategoryAlways(expense, v) == TRUE

\* Line 1197.
matchesCategory(expense, v) ==
  v.filterCategory = "all" \/ expense.category = v.filterCategory

\* matchesReimbursed with "all" read as "unpaid".
matchesReimbursedAllUnpaid(expense, v) ==
  \/ v.filterReimbursed \in {"all", "unpaid"} /\ ~expense.reimbursed
  \/ v.filterReimbursed = "paid" /\ expense.reimbursed

\* Lines 1198-1201.
matchesReimbursed(expense, v) ==
  \/ v.filterReimbursed = "all"
  \/ v.filterReimbursed = "paid" /\ expense.reimbursed
  \/ v.filterReimbursed = "unpaid" /\ ~expense.reimbursed

\* Lines 1203-1206: !dateRange.start and !dateRange.end hold for null and "".
matchesDateRange(expense, v) ==
  LET dateRange == getDateRange(v)
  IN  \/ dateRange.start = Null
      \/ dateRange.end = Null
      \/ (expense.expense_date >= dateRange.start /\ expense.expense_date <= dateRange.end)

\* Lines 1194-1209: expenses.filter(...).
filteredExpenses(es, v) ==
  LET keep(expense) == /\ matchesSearch(expense, v)
                       /\ matchesCategory(expense, v)
                       /\ matchesReimbursed(expense, v)
                       /\ matchesDateRange(expense, v)
  IN  SelectSeq(es, keep)

\* The order of localeCompare on the six category names.
CategoryCollation == <<"Food", "Fun", "Gas & Electric", "Household", "Misc", "WiFi">>

CollationRank(category) == CHOOSE k \in 1..Len(CategoryCollation) : CategoryCollation[k] = category

\* a.localeCompare(b) for two values of the same collation: -1, 0 or 1.
Compare(x, y) == IF x < y THEN -1 ELSE IF x > y THEN 1 ELSE 0

\* Lines 417-441: the comparator of sortExpenses for the chosen option.
comparison(a, b, option) ==
  CASE option = "date-desc"     -> Compare(b.expense_date, a.expense_date)
    [] option = "date-asc"      -> Compare(a.expense_date, b.expense_date)
    [] option = "amount-desc"   -> b.amount_cents - a.amount_cents
    [] option = "amount-asc"    -> a.amount_cents - b.amount_cents
    [] option = "category-asc"  -> Compare(CollationRank(a.category), CollationRank(b.category))
    [] option = "category-desc" -> Compare(CollationRank(b.category), CollationRank(a.category))
    [] OTHER -> 0

\* InsertStable with the entry put before the entries it compares equal to.
RECURSIVE InsertBeforeEqual(_, _, _)
InsertBeforeEqual(sorted, e, option) ==
  IF sorted = <<>> THEN <<e>>
  ELSE IF comparison(Head(sorted), e, option) < 0
  THEN <<Head(sorted)>> \o InsertBeforeEqual(Tail(sorted), e, option)
  ELSE <<e>> \o sorted

\* Array.prototype.sort is stable: an entry comes after the entries before it
\* in the input that do not compare greater.
RECURSIVE InsertStable(_, _, _)
InsertStable(sorted, e, option) ==
  IF sorted = <<>> THEN <<e>>
  ELSE IF comparison(Head(sorted), e, option) <= 0
  THEN <<Head(sorted)>> \o InsertStable(Tail(sorted), e, option)
  ELSE <<e>> \o sorted

\* Lines 415-444: [...expenses].sort(comparator), a new array.
RECURSIVE sortExpenses(_, _)
sortExpenses(es, option) ==
  IF es = <<>> THEN <<>>
  ELSE InsertStable(sortExpenses(SubSeq(es, 1, Len(es) - 1), option), es[Len(es)], option)

\* Line 1212 and the list below it: the page renders the filtered and sorted
\* list of the displayed snapshot (not while loading, line 1191).
RenderList ==
  /\ ~loading
  /\ rendered' = [rendered EXCEPT
                    !.listed = TRUE,
                    !.filtered = filteredExpenses(expenses, view),
                    !.sorted = sortExpenses(filteredExpenses(expenses, view),
                                            view.sortOption)]
  /\ rendered' # rendered
  /\ UNCHANGED <<store, nextId, clock, client, tasks, balance, view, peerError>>

\* totals.get(key) || 0 on a Map kept as a sequence of <<key, amount>> in the
\* order of insertion.
MapGet(totals, key) ==
  IF \E k \in 1..Len(totals) : totals[k][1] = key
  THEN totals[CHOOSE k \in 1..Len(totals) : totals[k][1] = key][2]
  ELSE 0

\* totals.set(key, amount): a present key keeps its place, a new one is added
\* at the end.
MapSet(totals, key, amount) ==
  IF \E k \in 1..Len(totals) : totals[k][1] = key
  THEN [k \in 1..Len(totals) |-> IF totals[k][1] = key THEN <<key, amount>> ELSE totals[k]]
  ELSE Append(totals, <<key, amount>>)

\* CategoryFold with each amount set instead of added to the category's total.
RECURSIVE CategoryFoldSets(_, _)
CategoryFoldSets(es, totals) ==
  IF es = <<>> THEN totals
  ELSE CategoryFoldSets(Tail(es), MapSet(totals, Head(es).category, Head(es).amount_cents))

\* Lines 376-379: the forEach of getCategoryTotals.
RECURSIVE CategoryFold(_, _)
CategoryFold(es, totals) ==
  IF es = <<>> THEN totals
  ELSE CategoryFold(Tail(es),
         MapSet(totals, Head(es).category,
                MapGet(totals, Head(es).category) + Head(es).amount_cents))

\* Lines 381-388.
CategoryColor(category) ==
  CASE category = "Food" -> "#e07d4c"
    [] category = "Gas & Electric" -> "#f4a261"
    [] category = "WiFi" -> "#e9c46a"
    [] category = "Household" -> "#f1faee"
    [] category = "Fun" -> "#a8dadc"
    [] category = "Misc" -> "#d4a5a5"
    [] OTHER -> "#ccc"

\* .sort((a, b) => b.amount - a.amount), stable.
RECURSIVE InsertByAmount(_, _)
InsertByAmount(sorted, item) ==
  IF sorted = <<>> THEN <<item>>
  ELSE IF item.amount - Head(sorted).amount <= 0
  THEN <<Head(sorted)>> \o InsertByAmount(Tail(sorted), item)
  ELSE <<item>> \o sorted

RECURSIVE SortByAmount(_)
SortByAmount(items) ==
  IF items = <<>> THEN <<>>
  ELSE InsertByAmount(SortByAmount(SubSeq(items, 1, Len(items) - 1)), items[Len(items)])

\* Lines 373-397.
getCategoryTotals(es) ==
  LET totals == CategoryFold(es, <<>>)
  IN  SortByAmount([k \in 1..Len(totals) |->
                      [category |-> totals[k][1], amount |-> totals[k][2],
                       color |-> CategoryColor(totals[k][1])]])

\* MonthKey with the whole date as the key.
MonthKeyDay(date) == date

\* expense_date.substring(0, 7): the "YYYY-MM" of a date, as the integer YYYYMM.
\* With years of four digits the order of the integers is the order of the
\* strings.
MonthKey(date) == date \div 100

\* Lines 403-407: the forEach of getMonthlyTotals.
RECURSIVE MonthFold(_, _)
MonthFold(es, totals) ==
  IF es = <<>> THEN totals
  ELSE MonthFold(Tail(es),
         MapSet(totals, MonthKey(Head(es).expense_date),
                MapGet(totals, MonthKey(Head(es).expense_date)) + Head(es).amount_cents))

\* .sort((a, b) => a.month.localeCompare(b.month)), stable.
RECURSIVE InsertByMonth(_, _)
InsertByMonth(sorted, item) ==
  IF sorted = <<>> THEN <<item>>
  ELSE IF Compare(Head(sorted).month, item.month) <= 0
  THEN <<Head(sorted)>> \o InsertByMonth(Tail(sorted), item)
  ELSE <<item>> \o sorted

RECURSIVE SortByMonth(_)
SortByMonth(items) ==
  IF items = <<>> THEN <<>>
  ELSE InsertByMonth(SortByMonth(SubSeq(items, 1, Len(items) - 1)), items[Len(items)])

\* Lines 400-412.
getMonthlyTotals(es) ==
  LET totals == MonthFold(es, <<>>)
  IN  SortByMonth([k \in 1..Len(totals) |->
                     [month |-> totals[k][1], amount |-> totals[k][2]]])

\* Lines 1031-1033: the charts section, when shown, renders the category and
\* the monthly totals of the displayed snapshot.
RenderCharts ==
  /\ rendered' = [rendered EXCEPT !.charted = TRUE,
                                  !.categoryData = getCategoryTotals(expenses),
                                  !.monthlyData = getMonthlyTotals(expenses)]
  /\ rendered' # rendered
  /\ UNCHANGED <<store, nextId, clock, client, tasks, balance, view, peerError>>

\* ------------------------------------------------------- the typed drafts
Text003 == <<"0",".","0","3">>
Text004 == <<"0",".","0","4">>
Text001 == <<"0",".","0","1">>
Text005 == <<"0",".","0","5">>
Text006 == <<"0",".","0","6">>

Draft(d, a, c, dt, p, s, so, sm) ==
  [description |-> d, amount |-> a, category |-> c, date |-> dt, paidBy |-> p,
   splitType |-> s, stephOwes |-> so, samOwes |-> sm]

\* What the user types in the lifecycle specification: an even split, a custom
\* split at the tolerance and one past it.
TypedDrafts ==
  { Draft(Rent, Text003, "Food", Today, "u1", "50/50", <<>>, <<>>),
    Draft(Wifi, Text004, "WiFi", Yesterday, "u2", "custom", Text001, Text005),
    Draft(Wifi, Text004, "WiFi", Yesterday, "u2", "custom", Text001, Text006) }

\* ------------------------------------------------------ the specification
\* A handler that awaits the store starts only while fewer than n calls are in
\* flight: the bound on concurrency shared by the specifications.
Below(n) == Len(tasks) < n

\* Whether the next handleAddOrUpdateExpense step would send a request.
FormSends == \E o \in Validate(form) : o.error = NoError

Next ==
  \/ AuthGate
  \/ TypeForm(TypedDrafts)
  \/ (FormSends => Below(MaxInFlight)) /\ handleAddOrUpdateExpense
  \/ handleEditExpense
  \/ handleCancelEdit
  \/ Below(MaxInFlight) /\ handleMarkReimbursed
  \/ Below(MaxInFlight) /\ handleDeleteExpense
  \/ toggleExpenseSelection
  \/ clearSelection
  \/ Below(MaxInFlight) /\ handleBatchMarkPaid
  \/ Below(MaxInFlight) /\ Refresh
  \/ Below(MaxInFlight) /\ RealtimeChange
  \/ \E i \in 1..Len(tasks) : StoreInsert(i)
  \/ \E i \in 1..Len(tasks) : StoreUpdate(i)
  \/ \E i \in 1..Len(tasks) : StoreDelete(i)
  \/ \E i \in 1..Len(tasks) : StoreSelect(i)
  \/ \E i \in 1..Len(tasks) : StoreFail(i)
  \/ \E i \in 1..Len(tasks) : MutationFailed(i)
  \/ \E i \in 1..Len(tasks) : MutationDone(i)
  \/ \E i \in 1..Len(tasks) : LoadDone(i)

Spec == Init /\ [][Next]_vars


\* --------------------------------------- the balance over bounded snapshots
\* A row as the store returns it, with the columns the balance does not read
\* fixed.
Row(id, paidBy, stephOwes, samOwes, reimbursed) ==
  [id |-> id, created_by |-> CurrentUserId, paid_by |-> paidBy, description |-> Rent,
   amount_cents |-> stephOwes + samOwes, expense_date |-> Today, created_at |-> id,
   category |-> "Misc", split_type |-> "custom",
   steph_owes_cents |-> stephOwes, sam_owes_cents |-> samOwes,
   reimbursed |-> reimbursed,
   reimbursed_date |-> IF reimbursed THEN id ELSE Null]

\* Payers: the two profiles and an id no profile has.
Payers == {"u1", "u2", "u9"}

\* The (Steph owes, Sam owes) pairs of the bounded snapshots.
SharePairs == {<<1000, 3000>>, <<3000, 1000>>, <<2, 1>>, <<-1, 4>>}

\* The profile lists the page may hold: none loaded, the table, and a table
\* whose names differ in case and position of the substring.
UserLists ==
  { <<>>, Profiles,
    << [id |-> "u2", email |-> "s@953.test", displayName |-> <<"S","a","m","m","y">>],
       [id |-> "u1", email |-> "t@953.test",
        displayName |-> <<"M","s"," ","S","T","E","P","H","a","n","i","e">>] >> }

Snapshots ==
  UNION { { [i \in 1..n |-> Row(i, c[i][1], c[i][2][1], c[i][2][2], c[i][3])] :
              c \in [1..n -> Payers \X SharePairs \X BOOLEAN] } : n \in 0..MaxEntries }

InitBalance ==
  /\ store = <<>>
  /\ nextId = 1
  /\ clock = 1
  /\ users \in UserLists
  /\ expenses \in Snapshots
  /\ loading = FALSE
  /\ error = NoError
  /\ submitting = FALSE
  /\ editingExpenseId = Null
  /\ form = EmptyForm
  /\ selectedExpenseIds = {}
  /\ tasks = <<>>
  /\ mounted = TRUE
  /\ balance = NoBalance
  /\ QueryUntouched

NextBalance == RenderBalance

SpecBalance == InitBalance /\ [][NextBalance]_vars


\* ------------------------------------------- the handler over bounded drafts
Text0004 == <<"0",".","0","0","4">>
Text0005 == <<"0",".","0","0","5">>
Text1005 == <<"1",".","0","0","5">>

\* What the amount field may hold: nothing, zero, a negative amount, less than
\* half a cent, two ties between cents, 100.00 and 100.01, and every total up
\* to MaxTotal cents.
AmountTexts ==
  {<<>>, Text0004, Text0005, Text1005}
    \cup {CentsText(c) : c \in {0, -100, 10000, 10001} \cup 1..MaxTotal}

StephTexts == {<<>>} \cup {CentsText(c) : c \in {4000, -1, 1}}

SamTexts == {CentsText(c) : c \in {6000, 6002, 6003, 6100, 5997, 2, 4, 5}}

Drafts ==
  { Draft(d, a, "Misc", Today, p, "50/50", <<>>, <<>>) :
      d \in {<<>>, Blank, Rent}, a \in AmountTexts, p \in {"", "u1", "u2"} }
    \cup
  { Draft(d[1], a, "Misc", Today, d[2], "custom", so, sm) :
      d \in {<<>>, Blank, Rent} \X {"", "u1", "u2"},
      a \in AmountTexts, so \in StephTexts, sm \in SamTexts }

\* The ledger after one add: the row the even draft of TypedDrafts is stored as.
SeedStore ==
  InsertRow(<<>>, 1, 1,
    [created_by |-> CurrentUserId, paid_by |-> "u1", description |-> Rent,
     amount_cents |-> 3, expense_date |-> Today, category |-> "Food",
     split_type |-> "50/50", steph_owes_cents |-> 2, sam_owes_cents |-> 1,
     reimbursed |-> FALSE, reimbursed_date |-> Null])

\* The page after mount with a draft typed in: on the empty ledger, or on the
\* seeded ledger with its row opened for edit.
InitDraft ==
  /\ users = Profiles
  /\ mounted = TRUE
  /\ loading = FALSE
  /\ error = NoError
  /\ submitting = FALSE
  /\ selectedExpenseIds = {}
  /\ tasks = <<>>
  /\ balance = NoBalance
  /\ QueryUntouched
  /\ form \in Drafts
  /\ \/ /\ store = <<>> /\ expenses = <<>> /\ editingExpenseId = Null
        /\ nextId = 1 /\ clock = 1
     \/ /\ store = SeedStore /\ expenses = SelectAll(SeedStore) /\ editingExpenseId = 1
        /\ nextId = 2 /\ clock = 1

NextDraft ==
  \/ handleAddOrUpdateExpense
  \/ \E i \in 1..Len(tasks) : StoreInsert(i)
  \/ \E i \in 1..Len(tasks) : StoreUpdate(i)
  \/ \E i \in 1..Len(tasks) : StoreSelect(i)
  \/ \E i \in 1..Len(tasks) : StoreFail(i)
  \/ \E i \in 1..Len(tasks) : MutationFailed(i)
  \/ \E i \in 1..Len(tasks) : MutationDone(i)
  \/ \E i \in 1..Len(tasks) : LoadDone(i)

SpecDraft == InitDraft /\ [][NextDraft]_vars

\* ------------------------------------------------- repeated settle clicks
\* What the user types in the settle specification: the even draft.
SettleDrafts == {Draft(Rent, Text003, "Food", Today, "u1", "50/50", <<>>, <<>>)}

\* Adds and "Mark paid" clicks, up to MaxClicks store calls in flight: a row's
\* button can be clicked again before the first click's refresh has come back.
NextSettle ==
  \/ AuthGate
  \/ TypeForm(SettleDrafts)
  \/ (FormSends => Below(MaxClicks)) /\ handleAddOrUpdateExpense
  \/ Below(MaxClicks) /\ handleMarkReimbursed
  \/ \E i \in 1..Len(tasks) : StoreInsert(i)
  \/ \E i \in 1..Len(tasks) : StoreUpdate(i)
  \/ \E i \in 1..Len(tasks) : StoreSelect(i)
  \/ \E i \in 1..Len(tasks) : StoreFail(i)
  \/ \E i \in 1..Len(tasks) : MutationFailed(i)
  \/ \E i \in 1..Len(tasks) : MutationDone(i)
  \/ \E i \in 1..Len(tasks) : LoadDone(i)

SpecSettle == Init /\ [][NextSettle]_vars

\* ------------------------------------------- two sessions settle one entry
\* A second row, paid by Sam, with a share for Steph.
SeedStore2 ==
  InsertRow(SeedStore, 2, 2,
    [created_by |-> CurrentUserId, paid_by |-> "u2", description |-> Wifi,
     amount_cents |-> 4, expense_date |-> Yesterday, category |-> "WiFi",
     split_type |-> "custom", steph_owes_cents |-> 1, sam_owes_cents |-> 5,
     reimbursed |-> FALSE, reimbursed_date |-> Null])

\* The page after mount, showing a ledger of one or two unsettled rows.
InitRace ==
  /\ store \in {SeedStore, SeedStore2}
  /\ nextId = Len(store) + 1
  /\ clock = 1
  /\ users = Profiles
  /\ expenses = SelectAll(store)
  /\ loading = FALSE
  /\ error = NoError
  /\ submitting = FALSE
  /\ editingExpenseId = Null
  /\ form = EmptyForm
  /\ selectedExpenseIds = {}
  /\ tasks = <<>>
  /\ mounted = TRUE
  /\ balance = NoBalance
  /\ QueryUntouched

\* "Mark paid" clicks of this session and of the second one, up to MaxClicks
\* store calls in flight, handled by the store and resumed in any order.
NextRace ==
  \/ Below(MaxClicks) /\ handleMarkReimbursed
  \/ Below(MaxClicks) /\ PeerMarkReimbursed
  \/ \E i \in 1..Len(tasks) : StoreUpdate(i)
  \/ \E i \in 1..Len(tasks) : StoreSelect(i)
  \/ \E i \in 1..Len(tasks) : StoreFail(i)
  \/ \E i \in 1..Len(tasks) : MutationFailed(i)
  \/ \E i \in 1..Len(tasks) : MutationDone(i)
  \/ \E i \in 1..Len(tasks) : LoadDone(i)
  \/ \E i \in 1..Len(tasks) : PeerFailed(i)
  \/ \E i \in 1..Len(tasks) : PeerDone(i)

SpecRace == InitRace /\ [][NextRace]_vars

\* ------------------------------------------- batch settle after a delete
\* Selecting, deleting and batch settling on the seeded ledger, up to MaxClicks
\* store calls in flight: a selected id can lose its row before the batch runs.
NextBatch ==
  \/ toggleExpenseSelection
  \/ clearSelection
  \/ Below(MaxClicks) /\ handleDeleteExpense
  \/ Below(MaxClicks) /\ handleBatchMarkPaid
  \/ \E i \in 1..Len(tasks) : StoreUpdate(i)
  \/ \E i \in 1..Len(tasks) : StoreDelete(i)
  \/ \E i \in 1..Len(tasks) : StoreSelect(i)
  \/ \E i \in 1..Len(tasks) : StoreFail(i)
  \/ \E i \in 1..Len(tasks) : MutationFailed(i)
  \/ \E i \in 1..Len(tasks) : MutationDone(i)
  \/ \E i \in 1..Len(tasks) : LoadDone(i)

SpecBatch == InitRace /\ [][NextBatch]_vars

\* ------------------------------------------- repeated change notifications
\* The page when the first notification of a change has called loadExpenses:
\* the store holds none, one or two rows, and the snapshot on screen is from
\* before the change.
InitNotify ==
  /\ store \in {<<>>, SeedStore, SeedStore2}
  /\ nextId = Len(store) + 1
  /\ clock = 1
  /\ users = Profiles
  /\ expenses \in {<<>>, SelectAll(SeedStore), SelectAll(SeedStore2)}
  /\ loading = TRUE
  /\ error = NoError
  /\ submitting = FALSE
  /\ editingExpenseId = Null
  /\ form = EmptyForm
  /\ selectedExpenseIds = {}
  /\ tasks = <<Task("select", "row", NoTarget, NoValues)>>
  /\ mounted = TRUE
  /\ balance = NoBalance
  /\ QueryUntouched

\* The notification comes again, up to MaxNotices fetches in flight, and the
\* fetches are answered, or fail, and resume in any order.
NextNotify ==
  \/ Below(MaxNotices) /\ RealtimeChange
  \/ \E i \in 1..Len(tasks) : StoreSelect(i)
  \/ \E i \in 1..Len(tasks) : StoreFail(i)
  \/ \E i \in 1..Len(tasks) : LoadDone(i)

SpecNotify == InitNotify /\ [][NextNotify]_vars

\* ------------------------------------------- the query over bounded inputs
\* A row as the store returns it, with the columns the query does not read
\* fixed.
Entry(id, description, amount, date, category, reimbursed) ==
  [id |-> id, created_by |-> CurrentUserId, paid_by |-> "u1",
   description |-> description, amount_cents |-> amount, expense_date |-> date,
   created_at |-> id, category |-> category, split_type |-> "50/50",
   steph_owes_cents |-> EvenSplit(amount).steph, sam_owes_cents |-> EvenSplit(amount).sam,
   reimbursed |-> reimbursed,
   reimbursed_date |-> IF reimbursed THEN id ELSE Null]

WiFiBill == <<"W","i","F","i"," ","b","i","l","l">>

\* The rows of the bounded snapshots, as <<description, amount, date, category,
\* reimbursed>>: dates on and next to the bounds of the date ranges, equal and
\* different amounts and categories, paid and unpaid.
EntryKinds ==
  { <<Rent, 3, Today, "Food", FALSE>>,
    <<WiFiBill, 4, Yesterday, "WiFi", TRUE>>,
    <<Rent, 3, DaysBefore(Today, 30), "Food", TRUE>>,
    <<Wifi, 12, PrevDay(MonthStart(Today)), "Misc", FALSE>>,
    <<WiFiBill, 4, MonthStart(Today), "Fun", FALSE>>,
    <<Rent, 12, MonthEnd(Today), "Food", FALSE>> }

\* The snapshots of up to MaxRows rows, in any order and with repetitions.
QuerySnapshots ==
  UNION { { [i \in 1..n |-> Entry(i, k[i][1], k[i][2], k[i][3], k[i][4], k[i][5])] :
              k \in [1..n -> EntryKinds] } : n \in 0..MaxRows }

\* What the search box may hold: nothing, spaces, and parts of descriptions
\* in another case.
SearchTexts == {<<>>, Blank, <<"R","E">>, <<"f","i"," ">>}

\* The dates of the custom range inputs: empty or a date.
RangeDates == {Null, MonthStart(Today), Today}

SortOptions ==
  {"date-desc", "date-asc", "amount-desc", "amount-asc", "category-asc", "category-desc"}

\* The date range controls: the presets, this month in a time zone west and
\* east of UTC, and the custom range with every pair of RangeDates.
RangeViews ==
  { [DefaultView EXCEPT !.dateRangePreset = p] : p \in {"all", "this-month", "last-30"} }
    \cup { [DefaultView EXCEPT !.dateRangePreset = "this-month", !.eastOfUtc = TRUE] }
    \cup { [DefaultView EXCEPT !.dateRangePreset = "custom",
                               !.customStartDate = s, !.customEndDate = e] :
             s \in RangeDates, e \in RangeDates }

\* The filter controls in every combination, with the default sort.
FilterViews ==
  { [r EXCEPT !.searchQuery = q, !.filterCategory = c, !.filterReimbursed = p] :
      r \in RangeViews, q \in SearchTexts, c \in {"all", "Food", "WiFi"},
      p \in {"all", "paid", "unpaid"} }

\* The sort options with the filter controls as created.
SortViews == { [DefaultView EXCEPT !.sortOption = o] : o \in SortOptions }

Views == FilterViews \cup SortViews

\* The page showing a snapshot with the controls set.
InitQuery ==
  /\ store = <<>>
  /\ nextId = 1
  /\ clock = 1
  /\ users = Profiles
  /\ expenses \in QuerySnapshots
  /\ loading = FALSE
  /\ error = NoError
  /\ submitting = FALSE
  /\ editingExpenseId = Null
  /\ form = EmptyForm
  /\ selectedExpenseIds = {}
  /\ tasks = <<>>
  /\ mounted = TRUE
  /\ balance = NoBalance
  /\ view \in Views
  /\ rendered = NoRendered
  /\ peerError = NoError

NextQuery ==
  \/ RenderList
  \/ RenderCharts

SpecQuery == InitQuery /\ [][NextQuery]_vars

\* ------------------------------------------- edits, settles and deletes
\* What the user types over an opened entry.
LedgerDrafts == {Draft(Wifi, Text004, "WiFi", Yesterday, "u2", "custom", Text001, Text005)}

\* On the seeded ledger the user opens entries, settled ones too, types over
\* them and submits the edit, settles, batch settles and deletes, up to
\* MaxInFlight store calls in flight, every call answered without error.
NextLedger ==
  \/ TypeForm(LedgerDrafts)
  \/ handleEditExpense
  \/ editingExpenseId # Null /\ (FormSends => Below(MaxInFlight)) /\ handleAddOrUpdateExpense
  \/ Below(MaxInFlight) /\ handleMarkReimbursed
  \/ toggleExpenseSelection
  \/ Below(MaxInFlight) /\ handleBatchMarkPaid
  \/ Below(MaxInFlight) /\ handleDeleteExpense
  \/ \E i \in 1..Len(tasks) : StoreUpdate(i)
  \/ \E i \in 1..Len(tasks) : StoreDelete(i)
  \/ \E i \in 1..Len(tasks) : StoreSelect(i)
  \/ \E i \in 1..Len(tasks) : MutationDone(i)
  \/ \E i \in 1..Len(tasks) : LoadDone(i)

SpecLedger == InitRace /\ [][NextLedger]_vars

\* ------------------------------------------- an entry deleted under the page
\* A second session deletes entries while this session, whose snapshot still
\* shows them, opens, edits and settles them; up to MaxClicks store calls in
\* flight, every call answered without error.
NextGone ==
  \/ Below(MaxClicks) /\ PeerDeleteExpense
  \/ TypeForm(LedgerDrafts)
  \/ handleEditExpense
  \/ editingExpenseId # Null /\ (FormSends => Below(MaxClicks)) /\ handleAddOrUpdateExpense
  \/ Below(MaxClicks) /\ handleMarkReimbursed
  \/ \E i \in 1..Len(tasks) : StoreUpdate(i)
  \/ \E i \in 1..Len(tasks) : StoreDelete(i)
  \/ \E i \in 1..Len(tasks) : StoreSelect(i)
  \/ \E i \in 1..Len(tasks) : MutationDone(i)
  \/ \E i \in 1..Len(tasks) : LoadDone(i)
  \/ \E i \in 1..Len(tasks) : PeerDone(i)

SpecGone == InitRace /\ [][NextGone]_vars

\* ------------------------------------------- a settle races an edit
\* The user opens an entry, types over it and submits the edit while the same
\* entry is settled from its row or by a second session; up to MaxClicks store
\* calls in flight, run by the store and resumed in any order.
NextEditRace ==
  \/ TypeForm(LedgerDrafts)
  \/ handleEditExpense
  \/ editingExpenseId # Null /\ (FormSends => Below(MaxClicks)) /\ handleAddOrUpdateExpense
  \/ Below(MaxClicks) /\ handleMarkReimbursed
  \/ Below(MaxClicks) /\ PeerMarkReimbursed
  \/ \E i \in 1..Len(tasks) : StoreUpdate(i)
  \/ \E i \in 1..Len(tasks) : StoreSelect(i)
  \/ \E i \in 1..Len(tasks) : MutationDone(i)
  \/ \E i \in 1..Len(tasks) : LoadDone(i)
  \/ \E i \in 1..Len(tasks) : PeerDone(i)

SpecEditRace == InitRace /\ [][NextEditRace]_vars

\* ------------------------------------------- fetches that overtake each other
\* The user settles entries and presses Refresh while change notifications
\* arrive: up to MaxNotices store calls in flight, answered (or failed) and
\* resumed in any order.  Every change of the store is this session's own, so
\* every change is followed by a fetch of this session.
NextConverge ==
  \/ Below(MaxNotices) /\ Refresh
  \/ Below(MaxNotices) /\ RealtimeChange
  \/ Below(MaxNotices) /\ handleMarkReimbursed
  \/ \E i \in 1..Len(tasks) : StoreUpdate(i)
  \/ \E i \in 1..Len(tasks) : StoreSelect(i)
  \/ \E i \in 1..Len(tasks) : StoreFail(i)
  \/ \E i \in 1..Len(tasks) : MutationFailed(i)
  \/ \E i \in 1..Len(tasks) : MutationDone(i)
  \/ \E i \in 1..Len(tasks) : LoadDone(i)

SpecConverge == InitRace /\ [][NextConverge]_vars

\* ------------------------------------------- the selection across refreshes
\* The user ticks rows, selects all unpaid rows, clears the selection, settles,
\* batch settles, deletes and refreshes while a second session settles and
\* deletes; up to MaxClicks store calls in flight, every call answered without
\* error.
NextSelect ==
  \/ toggleExpenseSelection
  \/ selectAllUnpaid
  \/ clearSelection
  \/ Below(MaxClicks) /\ Refresh
  \/ Below(MaxClicks) /\ handleMarkReimbursed
  \/ Below(MaxClicks) /\ handleBatchMarkPaid
  \/ Below(MaxClicks) /\ handleDeleteExpense
  \/ Below(MaxClicks) /\ PeerMarkReimbursed
  \/ Below(MaxClicks) /\ PeerDeleteExpense
  \/ \E i \in 1..Len(tasks) : StoreUpdate(i)
  \/ \E i \in 1..Len(tasks) : StoreDelete(i)
  \/ \E i \in 1..Len(tasks) : StoreSelect(i)
  \/ \E i \in 1..Len(tasks) : MutationDone(i)
  \/ \E i \in 1..Len(tasks) : LoadDone(i)
  \/ \E i \in 1..Len(tasks) : PeerDone(i)

SpecSelect == InitRace /\ [][NextSelect]_vars

\* ------------------------------------------- the charts over bounded inputs
\* The page showing a snapshot with the filters as created and a sort chosen.
InitCharts ==
  /\ InitQuery
  /\ view \in SortViews

NextCharts ==
  \/ RenderList
  \/ RenderCharts

SpecCharts == InitCharts /\ [][NextCharts]_vars

\* ================================================================== claims
\* The sum of f over the finite index set S.
RECURSIVE SumOver(_, _)
SumOver(f, S) ==
  IF S = {} THEN 0
  ELSE LET i == CHOOSE x \in S : TRUE IN f[i] + SumOver(f, S \ {i})

\* Party A is the payer whose loaded profile carries "steph" in its name.
IsPartyA(id) ==
  \E i \in 1..Len(users) :
    users[i].id = id /\ includes(toLowerCase(users[i].displayName), Steph)

Unsettled == {i \in 1..Len(expenses) : ~expenses[i].reimbursed}

\* B's debt to A: what B owes on the unsettled entries A paid.
DebtOfB ==
  SumOver([i \in 1..Len(expenses) |-> expenses[i].sam_owes_cents],
          {i \in Unsettled : IsPartyA(expenses[i].paid_by)})

\* A's debt to B: what A owes on the unsettled entries B paid.
DebtOfA ==
  SumOver([i \in 1..Len(expenses) |-> expenses[i].steph_owes_cents],
          {i \in Unsettled : ~IsPartyA(expenses[i].paid_by)})

\* C1: the rendered balance is the reference fold of the displayed snapshot:
\* equal debts give "settled" with amount 0, otherwise the party with the
\* larger debt owes the other the absolute difference.
C1_BalanceIsReferenceFold ==
  balance # NoBalance =>
    IF DebtOfA = DebtOfB
    THEN balance = [person |-> "All settled up!", owes |-> "", amount |-> 0]
    ELSE IF DebtOfA > DebtOfB
    THEN balance = [person |-> "Steph", owes |-> "Sam", amount |-> DebtOfA - DebtOfB]
    ELSE balance = [person |-> "Sam", owes |-> "Steph", amount |-> DebtOfB - DebtOfA]

\* C1 witness: the scenario of the specification has been rendered: A paid and
\* B owes 3000, B paid and A owes 1000, and B owes A 2000.
C1_Witness ==
  /\ users = Profiles
  /\ Len(expenses) = 2
  /\ expenses[1].paid_by = "u1" /\ expenses[1].sam_owes_cents = 3000
  /\ expenses[2].paid_by = "u2" /\ expenses[2].steph_owes_cents = 1000
  /\ ~expenses[1].reimbursed /\ ~expenses[2].reimbursed
  /\ balance = [person |-> "Sam", owes |-> "Steph", amount |-> 2000]

\* The snapshot with its entries reordered by the permutation p.
Reordered(p) == [i \in 1..Len(expenses) |-> expenses[p[i]]]

\* C2: every reordering of the displayed snapshot has the balance that was
\* rendered for it: the same owing party, owed party and amount.
C2_BalancePermutationInvariant ==
  balance # NoBalance =>
    \A p \in Permutations(1..Len(expenses)) :
      calculateBalance(Reordered(p), users) = balance

\* C2 witness: a rendered snapshot of two unsettled entries paid by Steph with
\* different shares, so that a reordering changes the order of the fold's sums.
C2_Witness ==
  /\ balance # NoBalance
  /\ balance.amount > 0
  /\ Len(expenses) >= 2
  /\ ~expenses[1].reimbursed /\ ~expenses[2].reimbursed
  /\ IsPartyA(expenses[1].paid_by) /\ IsPartyA(expenses[2].paid_by)
  /\ expenses[1].sam_owes_cents # expenses[2].sam_owes_cents


\* The cents a numeric field can be read as.
CentsOf(text) == RoundCents(parseFloat(text))

EvenRows == {r \in Rows(store) : r.split_type = "50/50"}

\* C3: every entry stored with the 50/50 split has shares that add up to its
\* total and differ by at most one cent.
C3_EvenSplitSumsAndBalances ==
  \A r \in EvenRows :
    /\ r.amount_cents > 0
    /\ r.steph_owes_cents + r.sam_owes_cents = r.amount_cents
    /\ Abs(r.steph_owes_cents - r.sam_owes_cents) <= 1

\* C3 witness: an add with the 50/50 split and the odd total of 7 cents has
\* been stored.
C3_Witness ==
  \E r \in EvenRows : r.amount_cents = 7 /\ r.steph_owes_cents + r.sam_owes_cents = 7

\* C4: in the 50/50 split the odd cent goes to Steph: an odd total t is stored
\* as ((t+1)/2, (t-1)/2), an even total as (t/2, t/2); 10000 gives
\* (5000, 5000) and 10001 gives (5001, 5000).
C4_OddCentToSteph ==
  \A r \in EvenRows :
    /\ r.amount_cents % 2 = 1 =>
         /\ 2 * r.steph_owes_cents = r.amount_cents + 1
         /\ 2 * r.sam_owes_cents = r.amount_cents - 1
    /\ r.amount_cents % 2 = 0 =>
         /\ 2 * r.steph_owes_cents = r.amount_cents
         /\ 2 * r.sam_owes_cents = r.amount_cents
    /\ r.amount_cents = 10000 => r.steph_owes_cents = 5000 /\ r.sam_owes_cents = 5000
    /\ r.amount_cents = 10001 => r.steph_owes_cents = 5001 /\ r.sam_owes_cents = 5000

\* C4 witness: the total 10001 has been stored with the 50/50 split as
\* (5001, 5000).
C4_Witness ==
  \E r \in EvenRows :
    r.amount_cents = 10001 /\ r.steph_owes_cents = 5001 /\ r.sam_owes_cents = 5000

\* The draft passes the three field checks whatever way its amount rounds.
FieldsValid ==
  /\ trim(form.description) # <<>>
  /\ form.paidBy # ""
  /\ \A a \in CentsOf(form.amount) : ~isNaN(a) /\ a[1] > 0

\* A custom draft with valid fields and two numeric shares.
CustomDraft ==
  /\ form.splitType = "custom"
  /\ FieldsValid
  /\ \A x \in CentsOf(form.stephOwes) \cup CentsOf(form.samOwes) : ~isNaN(x)

\* The (total, share A, share B) readings of the draft.
Readings == CentsOf(form.amount) \X CentsOf(form.stephOwes) \X CentsOf(form.samOwes)

WithinTolerance(t) == Abs(t[2][1] + t[3][1] - t[1][1]) <= 2

\* What a step of the handler on a custom draft must do.
C5_Step ==
  /\ (\A t \in Readings : ~WithinTolerance(t)) =>
       error' = ErrSplit /\ tasks' = tasks /\ store' = store
  /\ (\A t \in Readings : WithinTolerance(t)) =>
       /\ error' = NoError
       /\ Len(tasks') = Len(tasks) + 1
       /\ tasks'[Len(tasks')].kind = IF editingExpenseId = Null THEN "insert" ELSE "update"
  /\ Len(tasks') > Len(tasks) =>
       LET v == tasks'[Len(tasks')].values
       IN  Abs(v.steph_owes_cents + v.sam_owes_cents - v.amount_cents) <= 2

\* C5: a custom split is accepted exactly when the shares add up to the total
\* within 2 cents; otherwise the handler reports the split mismatch, sends no
\* insert or update, and leaves the ledger as it is.
C5_CustomSplitTolerance ==
  [][(handleAddOrUpdateExpense /\ CustomDraft) => C5_Step]_vars

\* C5 witness: the draft of total 10000 with shares 4000 and 6100 has been
\* submitted and was rejected with the mismatch, nothing in flight.
C5_Witness ==
  /\ form.splitType = "custom"
  /\ CentsOf(form.amount) = {<<10000>>}
  /\ CentsOf(form.stephOwes) = {<<4000>>}
  /\ CentsOf(form.samOwes) = {<<6100>>}
  /\ error = ErrSplit
  /\ tasks = <<>>
  /\ store = <<>>

\* The draft fails a field check whatever way its amount rounds.
FieldsInvalid ==
  \/ trim(form.description) = <<>>
  \/ \A a \in CentsOf(form.amount) : isNaN(a) \/ a[1] <= 0
  \/ form.paidBy = ""

\* Every row of the ledger and every insert or update in flight carries a
\* positive amount, a description that is not blank and a payer.
WrittenValid ==
  /\ \A r \in Rows(store) :
       r.amount_cents > 0 /\ trim(r.description) # <<>> /\ r.paid_by # ""
  /\ \A i \in 1..Len(tasks) :
       tasks[i].kind \in {"insert", "update"} =>
         /\ tasks[i].values.amount_cents > 0
         /\ trim(tasks[i].values.description) # <<>>
         /\ tasks[i].values.paid_by # ""

\* C6: a draft with a blank description, an amount that is not a positive
\* number of cents, or no payer makes the handler report an error and send
\* nothing, the ledger unchanged; so every entry written is valid in the three
\* fields.
C6_ValidationNeverTouchesStore ==
  /\ []WrittenValid
  /\ [][(handleAddOrUpdateExpense /\ FieldsInvalid) =>
          /\ error' \in {ErrDescription, ErrAmount, ErrPaidBy}
          /\ tasks' = tasks
          /\ store' = store]_vars

\* C6 witness: a draft with a description and a payer but the amount 0 has
\* been submitted and rejected, nothing in flight.
C6_Witness ==
  /\ trim(form.description) # <<>>
  /\ form.paidBy # ""
  /\ CentsOf(form.amount) = {<<0>>}
  /\ error = ErrAmount
  /\ tasks = <<>>

\* C8: every stored entry has two shares that are not negative.
C8_SharesNonNegative ==
  \A r \in Rows(store) : r.steph_owes_cents >= 0 /\ r.sam_owes_cents >= 0


\* C7: every entry of the ledger has shares that add up to its total within
\* 2 cents.
C7_SharesWithinTolerance ==
  \A r \in Rows(store) :
    Abs(r.steph_owes_cents + r.sam_owes_cents - r.amount_cents) <= 2

\* C7 witness: a custom entry whose shares are exactly 2 cents off its total
\* has been added and then settled.
C7_Witness ==
  \E r \in Rows(store) :
    /\ r.split_type = "custom"
    /\ Abs(r.steph_owes_cents + r.sam_owes_cents - r.amount_cents) = 2
    /\ r.reimbursed

\* C9: for every entry of the ledger, reimbursed_date is set if and only if
\* reimbursed is true.
C9_SettledAtIffSettled ==
  \A r \in Rows(store) : r.reimbursed <=> r.reimbursed_date # Null

\* C9 witness: the ledger holds a settled entry with its date and an unsettled
\* one without.
C9_Witness ==
  \E r, q \in Rows(store) :
    /\ r.reimbursed /\ r.reimbursed_date # Null
    /\ ~q.reimbursed /\ q.reimbursed_date = Null

\* The ledger with every reimbursed_date blanked.
IgnoringSettledAt(st) == [i \in DOMAIN st |-> [st[i] EXCEPT !.reimbursed_date = Null]]

\* The store runs settle i, with success, in this step.
SettleRuns(i) ==
  /\ tasks[i].kind = "settle" /\ tasks[i].stage = "sent"
  /\ Len(tasks') = Len(tasks)
  /\ tasks'[i].stage = "replied" /\ ~tasks'[i].failed

\* C10: a settle of an entry that is already settled leaves the ledger as the
\* first settle left it, but for reimbursed_date: the entry stays settled and
\* no other column of any entry changes.
C10_SettleIdempotent ==
  [][\A i \in 1..Len(tasks) :
       (SettleRuns(i) /\ \A id \in tasks[i].target :
                           id \in DOMAIN store /\ store[id].reimbursed)
         => /\ IgnoringSettledAt(store') = IgnoringSettledAt(store)
            /\ \A id \in tasks[i].target : store'[id].reimbursed]_vars

\* C10 witness: two settles of the same entry have both been run by the store,
\* and the entry carries the date of the later click.
C10_Witness ==
  \E i, j \in 1..Len(tasks) :
    /\ i # j
    /\ tasks[i].kind = "settle" /\ tasks[j].kind = "settle"
    /\ tasks[i].stage = "replied" /\ tasks[j].stage = "replied"
    /\ ~tasks[i].failed /\ ~tasks[j].failed
    /\ tasks[i].target = tasks[j].target
    /\ \A id \in tasks[i].target :
         /\ id \in DOMAIN store
         /\ store[id].reimbursed
         /\ store[id].reimbursed_date \in
              {tasks[i].values.reimbursed_date, tasks[j].values.reimbursed_date}
    /\ Cardinality(DOMAIN store) = 2


\* A settle call that the store has answered without error.
SettleAnswered(i) ==
  /\ tasks[i].kind = "settle"
  /\ tasks[i].stage = "replied"
  /\ ~tasks[i].failed

\* What a settle call does at each of its steps: the store answers it without
\* error and leaves its row settled, whether or not the row was settled
\* before, and the caller that resumes shows no error.
C11_Step(i) ==
  /\ (tasks[i].kind = "settle" /\ StoreUpdate(i)) =>
       /\ SettleAnswered(i)'
       /\ \A id \in tasks[i].target \cap DOMAIN store : store'[id].reimbursed
  /\ (tasks[i].kind = "settle" /\ MutationDone(i)) => error' = NoError
  /\ (tasks[i].kind = "settle" /\ PeerDone(i)) => peerError' = NoError

\* C11: two settle calls for one existing entry, made at the same time by one
\* session or by two, in every interleaving of their store calls and refreshes:
\* each call is answered without error, no error is shown to either caller, and
\* once a call is answered the entry is settled.
C11_ConcurrentSettleNoError ==
  /\ [](\A i \in 1..Len(tasks) :
          SettleAnswered(i) =>
            \A id \in tasks[i].target \cap DOMAIN store : store[id].reimbursed)
  /\ [][\A i \in 1..Len(tasks) : C11_Step(i)]_vars

\* C11 witness: the settle of this session and the settle of the second
\* session for the same entry have both been answered, and the entry is settled.
C11_Witness ==
  \E i, j \in 1..Len(tasks) :
    /\ SettleAnswered(i) /\ tasks[i].origin = "row"
    /\ SettleAnswered(j) /\ tasks[j].origin = "peer"
    /\ tasks[i].target = tasks[j].target
    /\ \A id \in tasks[i].target : id \in DOMAIN store /\ store[id].reimbursed
    /\ error = NoError /\ peerError = NoError


\* A row after a settle that carries the timestamp now.
SettledRow(row, now) == [row EXCEPT !.reimbursed = TRUE, !.reimbursed_date = now]

\* What the store's run of the batch call i does.
C12_Step(i) ==
  /\ (tasks[i].kind = "batch" /\ StoreUpdate(i)) =>
       /\ ~tasks'[i].failed
       /\ DOMAIN store' = DOMAIN store
       /\ \A id \in DOMAIN store :
            store'[id] = IF id \in tasks[i].target
                         THEN SettledRow(store[id], tasks[i].values.reimbursed_date)
                         ELSE store[id]
  /\ (tasks[i].kind = "batch" /\ MutationDone(i)) => error' = NoError

\* C12: the batch settle settles every selected id that has a row in the store
\* and skips the selected ids that have none: the call is answered without
\* error, no error is shown, and no row outside the selection is changed.
C12_BatchSkipsAbsent ==
  [][\A i \in 1..Len(tasks) : C12_Step(i)]_vars

\* C12 witness: a batch for two selected ids has been answered without error;
\* one id has no row any more, the row of the other is settled.
C12_Witness ==
  \E i \in 1..Len(tasks) :
    /\ tasks[i].kind = "batch" /\ tasks[i].stage = "replied" /\ ~tasks[i].failed
    /\ \E x, y \in tasks[i].target :
         /\ x \notin DOMAIN store
         /\ y \in DOMAIN store /\ store[y].reimbursed


\* The ids that the answer of a store call names: the rows in its data.  An
\* update is sent without .select() (lines 356-362), so its answer carries the
\* error only and no rows.
Reported(t) == {t.data[k].id : k \in 1..Len(t.data)}

\* C13: the batch settle reports which of the requested ids were settled: when
\* some selected id has no row, the answer that the handler receives names
\* exactly the selected ids that were settled.
C13_BatchReportsSettled ==
  [][\A i \in 1..Len(tasks) :
       (/\ tasks[i].kind = "batch"
        /\ StoreUpdate(i)
        /\ ~(tasks[i].target \subseteq DOMAIN store)) =>
         Reported(tasks'[i]) = tasks[i].target \cap DOMAIN store]_vars


\* The fetch of call i is answered with the store's rows in the order asked for.
FetchReadsStore(i) == StoreSelect(i) => tasks'[i].data = SelectAll(store)

\* The handler of the mutation i, answered without error, sends a fetch.
MutationRefetches(i) ==
  MutationDone(i) =>
    /\ Len(tasks') = Len(tasks)
    /\ tasks'[i].kind = "select" /\ tasks'[i].stage = "sent"

\* The displayed snapshot changes only when loadExpenses resumes with the rows
\* of a fetch that succeeded.
WrittenFromFetch ==
  expenses' # expenses =>
    \E i \in 1..Len(tasks) :
      LoadDone(i) /\ ~tasks[i].failed /\ expenses' = tasks[i].data

\* The displayed snapshot changes only when loadExpenses resumes: with the rows
\* of the fetch, or with the empty list when the fetch failed.
WrittenByLoad ==
  expenses' # expenses =>
    \E i \in 1..Len(tasks) :
      /\ LoadDone(i)
      /\ expenses' = IF tasks[i].failed THEN <<>> ELSE tasks[i].data
      /\ tasks[i].failed => error' = ErrStore

\* C14 as stated: expenses is written only by loadExpenses and only with the
\* result of a store fetch, every fetch reads the store, and every mutation
\* that succeeded is followed by a fetch.
C14_SnapshotOnlyFromFetch ==
  [][/\ WrittenFromFetch
     /\ \A i \in 1..Len(tasks) : FetchReadsStore(i) /\ MutationRefetches(i)]_vars

\* C14, amended: expenses is written only by loadExpenses, with the rows of a
\* fetch that succeeded or with the empty list and the error shown when the
\* fetch failed; every fetch reads the store, and every mutation that
\* succeeded is followed by a fetch.
C14_SnapshotOnlyFromLoad ==
  [][/\ WrittenByLoad
     /\ \A i \in 1..Len(tasks) : FetchReadsStore(i) /\ MutationRefetches(i)]_vars

\* C14 witness: after a fetch that failed the page shows the empty list and
\* the error while the store holds an entry.
C14_Witness ==
  /\ mounted /\ ~loading /\ tasks = <<>>
  /\ store # <<>>
  /\ expenses = <<>>
  /\ error = ErrStore


\* The view that one delivery of the notification leaves when its fetch has
\* succeeded: the store's rows, not loading, no error.
ViewOfStore ==
  /\ expenses = SelectAll(store)
  /\ ~loading
  /\ error = NoError

\* C15: repeated deliveries of the change notification change nothing in the
\* store and nothing of the page but the snapshot, loading and error; and once
\* all the fetches they started have completed, the view is the one a single
\* delivery leaves, unless a fetch failed and its error is shown.
C15_DuplicateNoticesHarmless ==
  /\ []((tasks = <<>> /\ error = NoError) => ViewOfStore)
  /\ [][UNCHANGED <<store, nextId, users, submitting, editingExpenseId, form,
                    selectedExpenseIds>>]_vars

\* C15 witness: the notification was delivered more than once: a fetch has
\* completed and the view shows the store's two rows, and a further fetch is
\* answered with the same rows.
C15_Witness ==
  /\ Len(tasks) = 1
  /\ tasks[1].stage = "replied" /\ ~tasks[1].failed
  /\ tasks[1].data = expenses
  /\ ViewOfStore
  /\ Len(expenses) = 2


\* Whether out is the subsequence of es at the positions keep, in the order
\* of es.
IsSubsequenceAt(out, es, keep) ==
  /\ keep \subseteq 1..Len(es)
  /\ Len(out) = Cardinality(keep)
  /\ \A k \in 1..Len(out) :
       out[k] = es[CHOOSE i \in keep : Cardinality({j \in keep : j <= i}) = k]

\* The search text occurs in the description, letters compared without case.
SearchOccurs(description, text) ==
  \E at \in 0..(Len(description) - Len(text)) :
    \A j \in 1..Len(text) :
      toLowerCaseChar(description[at + j]) = toLowerCaseChar(text[j])

\* The search predicate is active when the text is not blank.
SearchActive == \E j \in 1..Len(view.searchQuery) : view.searchQuery[j] \notin Whitespace

\* The date range of the view has both its bounds, or is "all".
RangeClosed == getDateRange(view).start # Null /\ getDateRange(view).end # Null
RangeAll == view.dateRangePreset = "all"

\* An entry satisfies every active predicate of the view.
SatisfiesAll(e) ==
  /\ SearchActive => SearchOccurs(e.description, view.searchQuery)
  /\ view.filterCategory # "all" => e.category = view.filterCategory
  /\ view.filterReimbursed = "paid" => e.reimbursed
  /\ view.filterReimbursed = "unpaid" => ~e.reimbursed
  /\ RangeClosed =>
       (getDateRange(view).start <= e.expense_date /\ e.expense_date <= getDateRange(view).end)

\* C16: the filtered list is exactly the subsequence, in snapshot order, of the
\* entries that satisfy all active predicates at once: the search text occurs
\* in the description without regard to case, the category is the chosen one,
\* the settlement state is the chosen one, and the date lies within the range.
\* (Ranges with both bounds and the range "all"; a range with one bound is the
\* subject of C17.)
C16_FilterIsConjunction ==
  (rendered.listed /\ (RangeClosed \/ RangeAll)) =>
    IsSubsequenceAt(rendered.filtered, expenses,
                    {i \in 1..Len(expenses) : SatisfiesAll(expenses[i])})

\* C16 witness: all four predicates are active and the list keeps one of two
\* entries.
C16_Witness ==
  /\ rendered.listed
  /\ SearchActive /\ view.filterCategory # "all" /\ view.filterReimbursed # "all"
  /\ RangeClosed
  /\ Len(expenses) = 2
  /\ Len(rendered.filtered) = 1

\* The other three predicates let every entry through.
OnlyRangeActive ==
  /\ view.searchQuery = <<>>
  /\ view.filterCategory = "all"
  /\ view.filterReimbursed = "all"
  /\ view.dateRangePreset = "custom"

\* C17: the date range is inclusive on both bounds, and with one bound only it
\* is unbounded on the other side: with only the start set exactly the entries
\* dated on or after it pass, with only the end set exactly those dated on or
\* before it.
C17_OneBoundRange ==
  (rendered.listed /\ OnlyRangeActive) =>
    IsSubsequenceAt(rendered.filtered, expenses,
      {i \in 1..Len(expenses) :
         /\ view.customStartDate # Null => expenses[i].expense_date >= view.customStartDate
         /\ view.customEndDate # Null => expenses[i].expense_date <= view.customEndDate})


\* Every predicate of v lets every entry through.
MatchAny(v) ==
  /\ v.searchQuery = <<>>
  /\ v.filterCategory = "all"
  /\ v.filterReimbursed = "all"
  /\ v.dateRangePreset = "all"

\* The predicate set of v as the filter evaluates it on one entry.
Passes(e, v) ==
  /\ matchesSearch(e, v)
  /\ matchesCategory(e, v)
  /\ matchesReimbursed(e, v)
  /\ matchesDateRange(e, v)

\* The predicate sets of a second filter: each control on its own and some
\* together.
SecondViews ==
  RangeViews
    \cup { [DefaultView EXCEPT !.searchQuery = q] : q \in SearchTexts }
    \cup { [DefaultView EXCEPT !.filterCategory = c, !.filterReimbursed = p] :
             c \in {"all", "Food"}, p \in {"all", "paid", "unpaid"} }

\* C18: the filter changes nothing when every predicate is "match-any", and a
\* filter of a filtered list is the filter by both predicate sets: it keeps, in
\* snapshot order, exactly the entries that pass both.
C18_FilterNoOpAndComposes ==
  rendered.listed =>
    LET first == {i \in 1..Len(expenses) : Passes(expenses[i], view)}
    IN  /\ MatchAny(view) => rendered.filtered = expenses
        /\ \A v2 \in SecondViews :
             IsSubsequenceAt(filteredExpenses(rendered.filtered, v2), expenses,
               {i \in first : Passes(expenses[i], v2)})

\* C18 witness: a filter by category has kept both entries, and a second
\* filter keeps one of them.
C18_Witness ==
  /\ rendered.listed
  /\ view.filterCategory = "Food"
  /\ Len(expenses) = 2
  /\ rendered.filtered = expenses
  /\ \E v2 \in SecondViews : Len(filteredExpenses(rendered.filtered, v2)) = 1

\* The key of an entry under a sort option.
SortKey(e, option) ==
  CASE option \in {"date-desc", "date-asc"} -> e.expense_date
    [] option \in {"amount-desc", "amount-asc"} -> e.amount_cents
    [] option \in {"category-asc", "category-desc"} -> CollationRank(e.category)

Ascending(option) == option \in {"date-asc", "amount-asc", "category-asc"}

\* The position in the sequence es of the entry with the id of e.
PositionIn(es, e) == CHOOSE k \in 1..Len(es) : es[k].id = e.id

\* out is es reordered by the key of the option in its direction, entries with
\* equal keys in the order they have in es.
IsStableSortOf(out, es, option) ==
  /\ Len(out) = Len(es)
  /\ \A k \in 1..Len(es) : \E l \in 1..Len(out) : out[l] = es[k]
  /\ \A k, l \in 1..Len(out) :
       k < l =>
         /\ IF Ascending(option)
            THEN SortKey(out[k], option) <= SortKey(out[l], option)
            ELSE SortKey(out[k], option) >= SortKey(out[l], option)
         /\ SortKey(out[k], option) = SortKey(out[l], option) =>
              PositionIn(es, out[k]) < PositionIn(es, out[l])

\* C19: for each of the six options the sorted list is a permutation of the
\* filtered list ordered by the key in the chosen direction, entries with equal
\* keys keep their input order, and rendering leaves the snapshot as it was.
C19_SortStableNonMutating ==
  /\ [](rendered.listed =>
          IsStableSortOf(rendered.sorted, rendered.filtered, view.sortOption))
  /\ [][RenderList => expenses' = expenses]_vars

\* C19 witness: two entries of equal amount sorted by amount, descending, in
\* their input order.
C19_Witness ==
  /\ rendered.listed
  /\ view.sortOption = "amount-desc"
  /\ Len(rendered.sorted) = 2
  /\ rendered.sorted[1].amount_cents = rendered.sorted[2].amount_cents
  /\ rendered.sorted[1].expense_date # rendered.sorted[2].expense_date
  /\ rendered.sorted = expenses

\* C20: the category totals sum to the sum of the amounts of the entries, each
\* category of the input occurs exactly once and no other does, and an empty
\* input gives an empty list.
C20_CategoryTotalsSum ==
  rendered.charted =>
    LET data == rendered.categoryData
    IN  /\ SumOver([k \in 1..Len(data) |-> data[k].amount], 1..Len(data))
             = SumOver([i \in 1..Len(expenses) |-> expenses[i].amount_cents],
                       1..Len(expenses))
        /\ \A i \in 1..Len(expenses) :
             Cardinality({k \in 1..Len(data) : data[k].category = expenses[i].category}) = 1
        /\ \A k \in 1..Len(data) :
             \E i \in 1..Len(expenses) : expenses[i].category = data[k].category
        /\ expenses = <<>> => data = <<>>

\* C20 witness: two entries of one category are charted as one total, the sum
\* of their amounts.
C20_Witness ==
  /\ rendered.charted
  /\ Len(expenses) = 2
  /\ expenses[1].category = expenses[2].category
  /\ expenses[1].amount_cents # expenses[2].amount_cents
  /\ Len(rendered.categoryData) = 1
  /\ rendered.categoryData[1].amount = expenses[1].amount_cents + expenses[2].amount_cents


\* The order in which the categories are declared (line 15).
DeclarationOrder == <<"Food", "Gas & Electric", "WiFi", "Household", "Fun", "Misc">>

DeclarationRank(category) ==
  CHOOSE k \in 1..Len(DeclarationOrder) : DeclarationOrder[k] = category

\* C21: the category totals are ordered by descending total, and categories
\* with equal totals appear in the declaration order Food, Gas & Electric,
\* WiFi, Household, Fun, Misc, whatever the order of the entries.
C21_CategoryTotalsOrder ==
  rendered.charted =>
    LET data == rendered.categoryData
    IN  \A k, l \in 1..Len(data) :
          k < l =>
            /\ data[k].amount >= data[l].amount
            /\ data[k].amount = data[l].amount =>
                 DeclarationRank(data[k].category) < DeclarationRank(data[l].category)


\* The year and the month of a date, the two parts of its "YYYY-MM" prefix.
YearOf(date) == date \div 10000
MonthOfYear(date) == (date \div 100) % 100

\* The entries of the snapshot dated in the month of key YYYYMM.
EntriesOfMonth(key) ==
  {i \in 1..Len(expenses) :
     YearOf(expenses[i].expense_date) * 100 + MonthOfYear(expenses[i].expense_date) = key}

\* C22: the monthly totals hold each month in which an entry is dated exactly
\* once and no other month, each with the sum of the amounts of its entries,
\* in strictly ascending order of the month.
C22_MonthlyTotals ==
  rendered.charted =>
    LET data == rendered.monthlyData
    IN  /\ \A i \in 1..Len(expenses) :
             \E k \in 1..Len(data) : i \in EntriesOfMonth(data[k].month)
        /\ \A k \in 1..Len(data) :
             /\ EntriesOfMonth(data[k].month) # {}
             /\ data[k].amount =
                  SumOver([i \in 1..Len(expenses) |-> expenses[i].amount_cents],
                          EntriesOfMonth(data[k].month))
        /\ \A k, l \in 1..Len(data) : k < l => data[k].month < data[l].month

\* C22 witness: two entries of different days of February are charted as one
\* month with the sum of their amounts.
C22_Witness ==
  /\ rendered.charted
  /\ Len(expenses) = 2
  /\ expenses[1].expense_date # expenses[2].expense_date
  /\ rendered.monthlyData =
       <<[month |-> 202602, amount |-> expenses[1].amount_cents + expenses[2].amount_cents]>>


\* The columns an edit sends and the columns a settle sends.
EditColumns ==
  {"paid_by", "description", "amount_cents", "expense_date", "category", "split_type",
   "steph_owes_cents", "sam_owes_cents"}
SettleColumns == {"reimbursed", "reimbursed_date"}

\* Every row the store holds before and after the step is the same outside
\* the columns cols.
SameOutside(cols) ==
  \A id \in DOMAIN store \cap DOMAIN store' :
    \A c \in DOMAIN store[id] \ cols : store'[id][c] = store[id][c]

\* C23: no step changes the id, created_by or created_at of an entry that
\* stays in the ledger; the store's run of an edit changes no column but
\* paid_by, description, amount_cents, expense_date, category, split_type and
\* the two shares, and its run of a settle or a batch settle changes no column
\* but reimbursed and reimbursed_date.
C23_FrameOfEditAndSettle ==
  [][/\ \A id \in DOMAIN store \cap DOMAIN store' :
          /\ store'[id].id = id
          /\ store'[id].created_by = store[id].created_by
          /\ store'[id].created_at = store[id].created_at
     /\ \A i \in 1..Len(tasks) :
          /\ (tasks[i].kind = "update" /\ StoreUpdate(i)) =>
               DOMAIN store' = DOMAIN store /\ SameOutside(EditColumns)
          /\ (tasks[i].kind \in {"settle", "batch"} /\ StoreUpdate(i)) =>
               DOMAIN store' = DOMAIN store /\ SameOutside(SettleColumns)]_vars

\* C23 witness: the first seeded entry has been edited and settled: it carries
\* the description typed over it, is settled, and has the id, creator and
\* creation time it was seeded with.
C23_Witness ==
  /\ 1 \in DOMAIN store
  /\ store[1].description = Wifi
  /\ store[1].reimbursed
  /\ store[1].id = 1 /\ store[1].created_by = CurrentUserId /\ store[1].created_at = 1


\* C24: an edit or a single settle whose id has no row in the store any more
\* is answered with an error, which the handler reports, and leaves the store
\* as it was.
C24_MissingIdFails ==
  [][\A i \in 1..Len(tasks) :
       (/\ tasks[i].kind \in {"update", "settle"}
        /\ StoreUpdate(i)
        /\ ~(tasks[i].target \subseteq DOMAIN store)) =>
         tasks'[i].failed /\ store' = store]_vars


\* The insert, update, settle, batch settle or delete of call i has been
\* answered with an error that its handler has not yet received.
FailedAnswer(i) ==
  /\ tasks[i].kind \in {"insert", "update", "settle", "batch", "delete"}
  /\ tasks[i].origin # "peer"
  /\ tasks[i].stage = "replied"
  /\ tasks[i].failed

\* C25: a store call of a mutation that failed is either still waiting for its
\* handler or the handler has resumed in this step: the error is shown, the
\* call is gone and no other call has taken its place (no retry, no fetch),
\* and the store and the snapshot are as they were.
C25_StoreFailurePassedThrough ==
  [][\A i \in 1..Len(tasks) :
       FailedAnswer(i) =>
         \/ \E j \in 1..Len(tasks') : tasks'[j] = tasks[i]
         \/ /\ tasks' = Without(tasks, i)
            /\ error' = ErrStore
            /\ UNCHANGED <<store, expenses, loading>>]_vars

\* C25 witness: a mutation failed and its handler has resumed: the error is
\* shown, nothing is in flight, and the snapshot still shows the store's rows
\* with the selection of the batch kept.
C25_Witness ==
  /\ error = ErrStore
  /\ tasks = <<>>
  /\ ~loading /\ ~submitting
  /\ expenses # <<>> /\ expenses = SelectAll(store)
  /\ selectedExpenseIds # {}
  /\ \A r \in Rows(store) : ~r.reimbursed


\* A payer resolves to party A: a loaded profile has the payer's id and a name
\* in which "steph" occurs, letters compared without case.
ResolvesToA(id) ==
  \E i \in 1..Len(users) :
    users[i].id = id /\ SearchOccurs(users[i].displayName, Steph)

\* What party B owes on the unsettled entries of payers that resolve to A, and
\* what party A owes on the unsettled entries of every other payer.
OwedByB ==
  SumOver([i \in 1..Len(expenses) |-> expenses[i].sam_owes_cents],
          {i \in Unsettled : ResolvesToA(expenses[i].paid_by)})
OwedByA ==
  SumOver([i \in 1..Len(expenses) |-> expenses[i].steph_owes_cents],
          {i \in Unsettled : ~ResolvesToA(expenses[i].paid_by)})

\* C26: the balance is defined for every snapshot and every list of profiles,
\* and it counts a payer as party A exactly when a profile with the payer's id
\* exists and its name contains "steph" in any case; every other payer (no such
\* profile, no profiles loaded, a name without the substring) counts as
\* party B.
C26_IdentityFallback ==
  /\ calculateBalance(expenses, users).amount >= 0
  /\ balance # NoBalance =>
       /\ balance.amount = Abs(OwedByA - OwedByB)
       /\ balance.person =
            IF OwedByA = OwedByB THEN "All settled up!"
            ELSE IF OwedByA > OwedByB THEN "Steph" ELSE "Sam"

\* C26 witness: no profiles are loaded and the one unsettled entry is paid by
\* the id of Steph's profile: the payer counts as party B, and Steph owes her
\* share.
C26_Witness ==
  /\ users = <<>>
  /\ Len(expenses) = 1
  /\ expenses[1].paid_by = "u1" /\ ~expenses[1].reimbursed
  /\ expenses[1].steph_owes_cents = 1000
  /\ balance = [person |-> "Steph", owes |-> "Sam", amount |-> 1000]


\* The store has run call i, an update of kind, without error, and the
\* handler that awaits it has not resumed.
Answered(i, kind) ==
  /\ tasks[i].kind = kind
  /\ tasks[i].stage = "replied"
  /\ ~tasks[i].failed

\* C27: when an edit and a settle of the same entry are in flight together and
\* the store has run both, in either order, the entry is settled, carries a
\* settlement date, and has the edit's payer, description, amount, date,
\* category, split mode and shares.
C27_SettleRacingEdit ==
  \A i, j \in 1..Len(tasks) :
    (Answered(i, "update") /\ Answered(j, "settle") /\ tasks[i].target = tasks[j].target) =>
      \A id \in tasks[i].target \cap DOMAIN store :
        /\ store[id].reimbursed
        /\ store[id].reimbursed_date # Null
        /\ \A c \in EditColumns : store[id][c] = tasks[i].values[c]

\* C27 witness: the edit of the first entry and a settle of it have both been
\* run: the entry is settled and carries the description typed over it.
C27_Witness ==
  \E i, j \in 1..Len(tasks) :
    /\ Answered(i, "update") /\ Answered(j, "settle")
    /\ tasks[i].target = {1} /\ tasks[j].target = {1}
    /\ store[1].reimbursed
    /\ store[1].reimbursed_date = tasks[j].values.reimbursed_date
    /\ store[1].description = Wifi
    /\ SeedStore[1].description # Wifi


\* C28: an entry that is settled stays settled with a settlement date in every
\* step that keeps it in the ledger (an edit of it, a settle or batch settle
\* of it or of another entry, a refresh), and an id once deleted is not given
\* to another entry.
C28_SettlementMonotonic ==
  [][\A id \in DOMAIN store :
       store[id].reimbursed =>
         \/ id \notin DOMAIN store'
         \/ store'[id].reimbursed /\ store'[id].reimbursed_date # Null]_vars

\* C28 witness: the first entry was settled and then edited: the edit has
\* been run by the store, the entry carries the description typed over it and
\* is still settled, with the date of the settle.
C28_Witness ==
  \E i \in 1..Len(tasks) :
    /\ Answered(i, "update")
    /\ tasks[i].target = {1}
    /\ 1 \in DOMAIN store
    /\ store[1].description = Wifi
    /\ store[1].reimbursed /\ store[1].reimbursed_date # Null


\* C29: once no store call is in flight (the store has stopped changing and
\* every fetch has completed) and no fetch has left an error, the displayed
\* snapshot is the content of the store and the page is not loading.
C29_ViewConverges ==
  (tasks = <<>> /\ error = NoError) =>
    /\ expenses = SelectAll(store)
    /\ ~loading


\* C30: every selected id is the id of an entry of the displayed snapshot that
\* is not settled there.
C30_SelectionValid ==
  \A id \in selectedExpenseIds :
    \E k \in 1..Len(expenses) : expenses[k].id = id /\ ~expenses[k].reimbursed

====
